---- MODULE Spec2Model ----
(***************************************************************************)
(* Model of the two variants of the Game Boy style platformer:             *)
(*   "base" = src/clientv0sml.py, "ext" = src/deltamarioland4k.py.         *)
(*                                                                         *)
(* Lengths and velocities are integers in 1/100 pixel (0.3 -> 30,          *)
(* 1.5 -> 150, 2.25 -> 225), so every sum and product the code forms from  *)
(* its decimal constants is exact here; the binary rounding of Python's    *)
(* floats (an error of about 1e-15 pixel) is not modelled.                 *)
(*                                                                         *)
(* One action per handler of Game.run: KeyDown is the body of the          *)
(* KEYDOWN branch of the event loop for one event, Frame is the rest of    *)
(* one iteration of the main loop (game logic, then drawing).  A loop      *)
(* iteration that handles n events is n KeyDown steps followed by a Frame. *)
(***************************************************************************)
EXTENDS Integers, Sequences, FiniteSets, TLC

VARIABLES
    variant,        \* which source file runs: "base" or "ext"
    state,          \* Game.state
    current_level,  \* Game.current_level
    level_unlocked, \* Game.level_unlocked (1-based here, 0-based in the code)
    level_num,      \* Game.level.level_num, 0 while Game.level is None
    player,         \* Game.player (the fields of Player), meaningful when level_num > 0
    enemies,        \* Game.level.enemies
    coins,          \* Game.level.coins
    scroll_x,       \* Game.scroll_x
    last_input,     \* history: the last key handled outside uninterrupted play
    env,            \* the environment: how the inputs of the current level are chosen
    boxA, boxB,     \* the operands of a direct call of the overlap test
    hit             \* <<>> before that call, <<its result>> after it

vars == <<variant, state, current_level, level_unlocked, level_num, player,
          enemies, coins, scroll_x, last_input, env, boxA, boxB, hit>>

-----------------------------------------------------------------------------
(* Program constants, in 1/100 pixel where they are lengths.               *)

Px(n) == n * 100

GB_WIDTH == 16000
GB_HEIGHT == 14400
GRAVITY == 30
PLAYER_SPEED == 150
JUMP_STRENGTH == 450
SCROLL_THRESH == 5300
INVINCIBLE_FRAMES == 60
START_LIVES == 3
DEATH_FRAMES == 60

Variants == {"base", "ext"}

LevelCount(v) == IF v = "base" THEN 3 ELSE 5

-----------------------------------------------------------------------------
(* Entities.                                                                *)

Platform(x, y, w, h) == [x |-> Px(x), y |-> Px(y), width |-> Px(w), height |-> Px(h)]

Enemy(x, y, enemy_type) ==
    [x |-> Px(x), y |-> Px(y), width |-> Px(8), height |-> Px(8),
     direction |-> -1, speed |-> 50 + enemy_type * 20, active |-> TRUE,
     animation_frame |-> 0, enemy_type |-> enemy_type]

\* id is the coin's place in the list at construction: it stands for the
\* identity of the Coin object, which is what list.remove compares.
Coin(id, x100, y100) ==
    [id |-> id, x |-> x100, y |-> y100, width |-> Px(8), height |-> Px(8)]

Goal(x, y) == [x |-> Px(x), y |-> Px(y), width |-> Px(16), height |-> Px(32)]

NewPlayer(x, y) ==
    [x |-> Px(x), y |-> Px(y), width |-> Px(8), height |-> Px(8),
     vel_y |-> 0, jumping |-> FALSE, direction |-> 1, animation_frame |-> 0,
     invincible |-> 0, lives |-> START_LIVES, coins |-> 0, active |-> TRUE,
     power_up |-> FALSE, dying |-> FALSE, death_timer |-> 0]

\* TRUE, once v has been evaluated.
Evaluated(v) == v = v

\* A faulty overlap test that counts a box touching the right edge of
\* the other as overlapping (C9 must reject it).
collision_touching(s, obj) ==
    /\ s.x <= obj.x + obj.width
    /\ s.x + s.width > obj.x
    /\ s.y < obj.y + obj.height
    /\ s.y + s.height > obj.y

\* Player.collision: the overlap test, strict on all four sides.
collision(s, obj) ==
    /\ s.x < obj.x + obj.width
    /\ s.x + s.width > obj.x
    /\ s.y < obj.y + obj.height
    /\ s.y + s.height > obj.y

-----------------------------------------------------------------------------
(* Level construction.                                                      *)

\* <<F(0), ..., F(n-1)>>: a "for i in range(n)" that appends one item.
SeqOf(n, F(_)) == [k \in 1..n |-> F(k - 1)]

\* The items F(i), i in range(n), for which Keep(i): "if ...: append".
SeqOfIf(n, Keep(_), F(_)) ==
    LET kept == SelectSeq([k \in 1..n |-> k - 1], Keep)
    IN  [j \in 1..Len(kept) |-> F(kept[j])]

LevelWidthPx(v, num) == IF v = "base" THEN 640 ELSE 640 + num * 160

level_width(v, num) == Px(LevelWidthPx(v, num))

PlayerStart == <<20, 100>>

Max2(a, b) == IF a >= b THEN a ELSE b
Min2(a, b) == IF a <= b THEN a ELSE b

\* "for x in range(0, level_width, 16)": tile i is at x = 16 i.
GroundTile(i) == Platform(16 * i, 144 - 16, 16, 16)

BaseGround == SeqOf(640 \div 16, GroundTile)

gap_freq(num) == Max2(1, 6 - num)

ExtGround(num) ==
    SeqOfIf(LevelWidthPx("ext", num) \div 16,
            LAMBDA i : (16 * i) % (gap_freq(num) * 16) # 0 \/ 16 * i < 32,
            GroundTile)

\* 100 * (30 + math.sin(i * 0.5) * 20) for i in range(20), rounded to 1/100.
Level4CoinY ==
    <<3000, 3959, 4683, 4995, 4819, 4197, 3282, 2298, 1486, 1045,
      1082, 1589, 2441, 3430, 4314, 4876, 4979, 4597, 3824, 2850>>

\* int(100 + math.sin(i * 0.8) * 30) for i in range(15).
Level5PlatformY ==
    <<100, 121, 129, 120, 98, 77, 70, 81, 103, 123, 129, 117, 94, 75, 70>>

\* (int(300 + math.cos(i*0.3) * (50 + i*2)), int(70 + math.sin(i*0.3) * 20))
\* for i in range(30).
Level5CoinXY ==
    <<<<350, 70>>, <<349, 75>>, <<344, 81>>, <<334, 85>>, <<321, 88>>,
      <<304, 89>>, <<285, 89>>, <<267, 87>>, <<251, 83>>, <<238, 78>>,
      <<230, 72>>, <<228, 66>>, <<233, 61>>, <<244, 56>>, <<261, 52>>,
      <<283, 50>>, <<307, 50>>, <<331, 51>>, <<354, 54>>, <<373, 58>>,
      <<386, 64>>, <<391, 70>>, <<389, 76>>, <<378, 81>>, <<359, 85>>,
      <<334, 88>>, <<305, 89>>, <<274, 89>>, <<244, 87>>, <<219, 83>>>>

BasePlatforms1 ==
    BaseGround \o <<Platform(80, 100, 32, 8), Platform(140, 80, 24, 8),
                    Platform(200, 100, 40, 8), Platform(280, 90, 32, 8)>>
BasePlatforms2 ==
    BaseGround \o <<Platform(60, 110, 24, 8), Platform(100, 90, 32, 8),
                    Platform(150, 100, 24, 8), Platform(190, 70, 40, 8),
                    Platform(250, 90, 32, 8), Platform(300, 110, 40, 8)>>
BasePlatforms3 ==
    BaseGround \o <<Platform(50, 100, 24, 8), Platform(90, 80, 24, 8),
                    Platform(130, 110, 32, 8), Platform(180, 70, 24, 8),
                    Platform(220, 90, 40, 8), Platform(280, 60, 32, 8),
                    Platform(340, 100, 48, 8)>>

ExtPlatforms1 ==
    ExtGround(1) \o <<Platform(80, 100, 32, 8), Platform(140, 80, 24, 8),
                      Platform(200, 100, 40, 8), Platform(280, 90, 32, 8)>>
ExtPlatforms2 ==
    ExtGround(2) \o SeqOf(8, LAMBDA i : Platform(60 + i * 45, 110 - (i % 3) * 20, 30, 8))
ExtPlatforms3 ==
    ExtGround(3) \o SeqOf(10, LAMBDA i : Platform(50 + i * 50, 100 - (i % 2) * 30, 35, 8))
ExtPlatforms4 ==
    ExtGround(4) \o SeqOf(12, LAMBDA i : Platform(40 + i * 55, 120 - i * 3, 20 + (i % 3) * 5, 8))
ExtPlatforms5 ==
    ExtGround(5) \o SeqOf(15, LAMBDA i : Platform(40 + i * 60, Level5PlatformY[i + 1], 25, 8))

\* Level.platforms after create_level.
LevelPlatforms(v, num) ==
    IF v = "base"
    THEN CASE num = 1 -> BasePlatforms1
           [] num = 2 -> BasePlatforms2
           [] num = 3 -> BasePlatforms3
           [] OTHER -> BaseGround
    ELSE CASE num = 1 -> ExtPlatforms1
           [] num = 2 -> ExtPlatforms2
           [] num = 3 -> ExtPlatforms3
           [] num = 4 -> ExtPlatforms4
           [] num = 5 -> ExtPlatforms5
           [] OTHER -> ExtGround(num)

BaseEnemies1 == <<Enemy(100, 92, 0), Enemy(220, 92, 0)>>
BaseEnemies2 == <<Enemy(70, 102, 0), Enemy(160, 92, 0), Enemy(200, 62, 0), Enemy(310, 102, 0)>>
BaseEnemies3 ==
    <<Enemy(60, 92, 0), Enemy(140, 102, 0), Enemy(190, 62, 0),
      Enemy(230, 82, 0), Enemy(290, 52, 0), Enemy(350, 92, 0)>>

ExtEnemies1 == <<Enemy(100, 92, 0), Enemy(220, 92, 0)>>
ExtEnemies2 ==
    SeqOfIf(8, LAMBDA i : i % 2 = 0,
            LAMBDA i : Enemy(65 + i * 45, 110 - (i % 3) * 20 - 8, 0))
ExtEnemies3 == SeqOf(10, LAMBDA i : Enemy(55 + i * 50, 92 - (i % 2) * 30, i % 2))
ExtEnemies4 ==
    SeqOfIf(12, LAMBDA i : i % 3 = 0,
            LAMBDA i : Enemy(45 + i * 55, 112 - i * 3, 1))
ExtEnemies5 ==
    SeqOf(15, LAMBDA i : Enemy(40 + i * 60 + 5, Level5PlatformY[i + 1] - 8,
                               IF i % 3 = 0 THEN 1 ELSE 0))

\* Level.enemies after create_level.
LevelEnemies(v, num) ==
    IF v = "base"
    THEN CASE num = 1 -> BaseEnemies1
           [] num = 2 -> BaseEnemies2
           [] num = 3 -> BaseEnemies3
           [] OTHER -> <<>>
    ELSE CASE num = 1 -> ExtEnemies1
           [] num = 2 -> ExtEnemies2
           [] num = 3 -> ExtEnemies3
           [] num = 4 -> ExtEnemies4
           [] num = 5 -> ExtEnemies5
           [] OTHER -> <<>>

BaseCoins1 == <<Coin(1, Px(90), Px(85)), Coin(2, Px(150), Px(65)), Coin(3, Px(210), Px(85))>>
BaseCoins2 == SeqOf(6, LAMBDA i : Coin(i + 1, Px(70 + i * 40), Px(50 + (i % 2) * 20)))
BaseCoins3 == SeqOf(8, LAMBDA i : Coin(i + 1, Px(60 + i * 35), Px(40 + (i % 3) * 15)))

ExtCoins1 == SeqOf(5, LAMBDA i : Coin(i + 1, Px(80 + i * 40), Px(65)))
ExtCoins2 == SeqOf(10, LAMBDA i : Coin(i + 1, Px(70 + i * 35), Px(50 + (i % 3) * 20)))
ExtCoins3 == SeqOf(15, LAMBDA i : Coin(i + 1, Px(60 + i * 30), Px(40 + (i % 4) * 15)))
ExtCoins4 == SeqOf(20, LAMBDA i : Coin(i + 1, Px(50 + i * 35), Level4CoinY[i + 1]))
ExtCoins5 ==
    SeqOf(30, LAMBDA i : Coin(i + 1, Px(Level5CoinXY[i + 1][1]), Px(Level5CoinXY[i + 1][2])))

\* Level.coins after create_level.
LevelCoins(v, num) ==
    IF v = "base"
    THEN CASE num = 1 -> BaseCoins1
           [] num = 2 -> BaseCoins2
           [] num = 3 -> BaseCoins3
           [] OTHER -> <<>>
    ELSE CASE num = 1 -> ExtCoins1
           [] num = 2 -> ExtCoins2
           [] num = 3 -> ExtCoins3
           [] num = 4 -> ExtCoins4
           [] num = 5 -> ExtCoins5
           [] OTHER -> <<>>

\* Level.goal after create_level.
LevelGoal(v, num) == Goal(LevelWidthPx(v, num) - 40, 144 - 48)

-----------------------------------------------------------------------------
(* Player.                                                                  *)

\* A faulty horizontal movement that sets the facing outside the test of
\* dx, so that standing still turns the player left (C35 must reject it).
MoveHorizontalAlwaysFaces(p, dx) ==
    LET step == IF p.power_up THEN (dx * 3) \div 2 ELSE dx
        anim == IF p.animation_frame + 2 >= 20 THEN 0 ELSE p.animation_frame + 2
    IN  IF dx # 0
        THEN [p EXCEPT !.x = p.x + step,
                       !.direction = IF dx > 0 THEN 1 ELSE -1,
                       !.animation_frame = anim]
        ELSE [p EXCEPT !.direction = -1]

\* Player.move, "Horizontal movement": x += dx * speed_mult, facing and walk
\* animation when dx != 0.  speed_mult is 1.5 under power-up (ext only).
MoveHorizontal(p, dx) ==
    LET step == IF p.power_up THEN (dx * 3) \div 2 ELSE dx
        anim == IF p.animation_frame + 2 >= 20 THEN 0 ELSE p.animation_frame + 2
    IN  IF dx # 0
        THEN [p EXCEPT !.x = p.x + step,
                       !.direction = IF dx > 0 THEN 1 ELSE -1,
                       !.animation_frame = anim]
        ELSE p

\* A faulty horizontal hit that puts the player at the far edge of the
\* platform (C23 must reject it).
HorizontalHitFarEdge(p, dx, pf) ==
    IF collision(p, pf)
    THEN [p EXCEPT !.x = IF dx > 0 THEN pf.x + pf.width ELSE pf.x - p.width]
    ELSE p

\* The body of "Platform collision (horizontal)" for one platform.
HorizontalHit(p, dx, pf) ==
    IF collision(p, pf)
    THEN [p EXCEPT !.x = IF dx > 0 THEN pf.x - p.width ELSE pf.x + pf.width]
    ELSE p

\* "for platform in platforms" of the horizontal pass, over platforms[lo..hi]
\* in list order: the first half of the range, then the second half on its
\* result.  (Every loop below is written this way; Evaluated(first) makes TLC
\* compute the first half before it enters the second, which keeps the
\* evaluation shallow.  The order of the iterations is the list's.)
RECURSIVE ResolveHorizontal(_, _, _, _, _)
ResolveHorizontal(p, dx, platforms, lo, hi) ==
    IF lo > hi THEN p
    ELSE IF lo = hi THEN HorizontalHit(p, dx, platforms[lo])
    ELSE LET mid == (lo + hi) \div 2
             first == ResolveHorizontal(p, dx, platforms, lo, mid)
         IN  IF Evaluated(first)
             THEN ResolveHorizontal(first, dx, platforms, mid + 1, hi)
             ELSE first

\* "Gravity": vel_y += GRAVITY; y += vel_y.
ApplyGravity(p) ==
    [p EXCEPT !.vel_y = p.vel_y + GRAVITY, !.y = p.y + p.vel_y + GRAVITY]

\* A faulty vertical hit that puts the player on the platform and keeps
\* the falling speed (C10 must reject it).
VerticalHitKeepsSpeed(p, pf) ==
    IF collision(p, pf)
    THEN IF p.vel_y > 0
         THEN [p EXCEPT !.y = pf.y - p.height, !.jumping = FALSE]
         ELSE IF p.vel_y < 0
         THEN [p EXCEPT !.y = pf.y + pf.height, !.vel_y = 0]
         ELSE p
    ELSE p

\* A faulty vertical resolution whose falling case stops the player where
\* it is instead of lifting it onto the platform (C36 must reject it).
VerticalHitSinks(p, pf) ==
    IF collision(p, pf)
    THEN IF p.vel_y > 0
         THEN [p EXCEPT !.vel_y = 0, !.jumping = FALSE]
         ELSE IF p.vel_y < 0
         THEN [p EXCEPT !.y = pf.y + pf.height, !.vel_y = 0]
         ELSE p
    ELSE p

\* The body of "Platform collision (vertical)" for one platform.
VerticalHit(p, pf) ==
    IF collision(p, pf)
    THEN IF p.vel_y > 0
         THEN [p EXCEPT !.y = pf.y - p.height, !.vel_y = 0, !.jumping = FALSE]
         ELSE IF p.vel_y < 0
         THEN [p EXCEPT !.y = pf.y + pf.height, !.vel_y = 0]
         ELSE p
    ELSE p

\* "for platform in platforms" of the vertical pass, over platforms[lo..hi]
\* in list order.
RECURSIVE ResolveVertical(_, _, _, _)
ResolveVertical(p, platforms, lo, hi) ==
    IF lo > hi THEN p
    ELSE IF lo = hi THEN VerticalHit(p, platforms[lo])
    ELSE LET mid == (lo + hi) \div 2
             first == ResolveVertical(p, platforms, lo, mid)
         IN  IF Evaluated(first)
             THEN ResolveVertical(first, platforms, mid + 1, hi)
             ELSE first

\* The player after the horizontal step, gravity and both platform passes:
\* the state Player.move has reached when it enters "Enemy collision".
AfterPlatforms(p, dx, platforms) ==
    ResolveVertical(
        ApplyGravity(ResolveHorizontal(MoveHorizontal(p, dx), dx, platforms,
                                       1, Len(platforms))),
        platforms, 1, Len(platforms))

\* A faulty damage branch that only takes the life: no invincibility and no
\* end of the player at lives <= 0 (C18 must reject it).
TakeDamageOnly(v, p) == [p EXCEPT !.lives = p.lives - 1]

\* The damage branch of "Enemy collision": base deactivates the player at
\* lives <= 0, ext starts the dying animation with a small hop.
TakeDamage(v, p) ==
    LET q == [p EXCEPT !.invincible = INVINCIBLE_FRAMES, !.lives = p.lives - 1]
    IN  IF q.lives <= 0
        THEN IF v = "base"
             THEN [q EXCEPT !.active = FALSE]
             ELSE [q EXCEPT !.dying = TRUE, !.vel_y = -(JUMP_STRENGTH \div 2)]
        ELSE q

\* A faulty enemy contact whose stomp bounces with the strength of the
\* death hop, 0.5 instead of 0.6 of the jump (C11 must reject it).
EnemyHitWeakBounce(v, pe, i) ==
    LET p == pe.p
        e == pe.es[i]
    IN  IF e.active /\ collision(p, e)
        THEN IF p.vel_y > 0 /\ p.y < e.y
             THEN [p  |-> [p EXCEPT !.vel_y = -(JUMP_STRENGTH \div 2),
                                    !.coins = p.coins + 1],
                   es |-> [pe.es EXCEPT ![i].active = FALSE]]
             ELSE IF p.invincible <= 0
             THEN [p |-> TakeDamage(v, p), es |-> pe.es]
             ELSE pe
        ELSE pe

\* A faulty enemy contact that deals damage without testing the
\* invincibility countdown (C12 must reject it).
EnemyHitNoImmunity(v, pe, i) ==
    LET p == pe.p
        e == pe.es[i]
    IN  IF e.active /\ collision(p, e)
        THEN IF p.vel_y > 0 /\ p.y < e.y
             THEN [p  |-> [p EXCEPT !.vel_y = -((JUMP_STRENGTH * 6) \div 10),
                                    !.coins = p.coins + 1],
                   es |-> [pe.es EXCEPT ![i].active = FALSE]]
             ELSE [p |-> TakeDamage(v, p), es |-> pe.es]
        ELSE pe

\* A faulty enemy contact that does not test the enemy's active flag (C21
\* must reject it).
EnemyHitAnyEnemy(v, pe, i) ==
    LET p == pe.p
        e == pe.es[i]
    IN  IF collision(p, e)
        THEN IF p.vel_y > 0 /\ p.y < e.y
             THEN [p  |-> [p EXCEPT !.vel_y = -((JUMP_STRENGTH * 6) \div 10),
                                    !.coins = p.coins + 1],
                   es |-> [pe.es EXCEPT ![i].active = FALSE]]
             ELSE IF p.invincible <= 0
             THEN [p |-> TakeDamage(v, p), es |-> pe.es]
             ELSE pe
        ELSE pe

\* A faulty enemy contact whose stomp gives no point (C30 must reject it).
EnemyHitNoPoint(v, pe, i) ==
    LET p == pe.p
        e == pe.es[i]
    IN  IF e.active /\ collision(p, e)
        THEN IF p.vel_y > 0 /\ p.y < e.y
             THEN [p  |-> [p EXCEPT !.vel_y = -((JUMP_STRENGTH * 6) \div 10)],
                   es |-> [pe.es EXCEPT ![i].active = FALSE]]
             ELSE IF p.invincible <= 0
             THEN [p |-> TakeDamage(v, p), es |-> pe.es]
             ELSE pe
        ELSE pe

\* A faulty enemy contact whose stomp counts as a landing (C34 must reject
\* it).
EnemyHitStompLands(v, pe, i) ==
    LET p == pe.p
        e == pe.es[i]
    IN  IF e.active /\ collision(p, e)
        THEN IF p.vel_y > 0 /\ p.y < e.y
             THEN [p  |-> [p EXCEPT !.vel_y = -((JUMP_STRENGTH * 6) \div 10),
                                    !.coins = p.coins + 1,
                                    !.jumping = FALSE],
                   es |-> [pe.es EXCEPT ![i].active = FALSE]]
             ELSE IF p.invincible <= 0
             THEN [p |-> TakeDamage(v, p), es |-> pe.es]
             ELSE pe
        ELSE pe

\* The body of "Enemy collision" for enemies[i];
\* pe = [p |-> player, es |-> enemies].
EnemyHit(v, pe, i) ==
    LET p == pe.p
        e == pe.es[i]
    IN  IF e.active /\ collision(p, e)
        THEN IF p.vel_y > 0 /\ p.y < e.y
             THEN [p  |-> [p EXCEPT !.vel_y = -((JUMP_STRENGTH * 6) \div 10),
                                    !.coins = p.coins + 1],
                   es |-> [pe.es EXCEPT ![i].active = FALSE]]
             ELSE IF p.invincible <= 0
             THEN [p |-> TakeDamage(v, p), es |-> pe.es]
             ELSE pe
        ELSE pe

\* "for enemy in enemies" of Player.move, over enemies[lo..hi] in list order.
RECURSIVE EnemyContact(_, _, _, _)
EnemyContact(v, pe, lo, hi) ==
    IF lo > hi THEN pe
    ELSE IF lo = hi THEN EnemyHit(v, pe, lo)
    ELSE LET mid == (lo + hi) \div 2
             first == EnemyContact(v, pe, lo, mid)
         IN  IF Evaluated(first)
             THEN EnemyContact(v, first, mid + 1, hi)
             ELSE first

\* A faulty coin pickup that counts the coin and leaves it in the list
\* (C13 must reject it).
CoinHitKeepsCoin(v, pc, c) ==
    LET p == pc.p
        n == p.coins + 1
    IN  IF collision(p, c)
        THEN [p  |-> [p EXCEPT !.coins = n,
                               !.power_up = IF v = "ext" /\ n % 10 = 0
                                            THEN TRUE ELSE p.power_up],
              cs |-> pc.cs]
        ELSE pc

\* The body of "Coin collection" for one coin c of the snapshot coins[:];
\* pc = [p |-> player, cs |-> the live list].  coins.remove(coin) removes the
\* entry that is this Coin object.  ext sets power_up when the count reaches a
\* multiple of 10.
CoinHit(v, pc, c) ==
    LET p == pc.p
        n == p.coins + 1
    IN  IF collision(p, c)
        THEN [p  |-> [p EXCEPT !.coins = n,
                               !.power_up = IF v = "ext" /\ n % 10 = 0
                                            THEN TRUE ELSE p.power_up],
              cs |-> SelectSeq(pc.cs, LAMBDA k : k.id # c.id)]
        ELSE pc

\* A faulty scan that walks the live list by position while removing from
\* it, "for coin in coins:" (C16 must reject it): the coin after a removed
\* one is skipped.
RECURSIVE LiveScan(_, _, _)
LiveScan(v, pc, i) ==
    IF i > Len(pc.cs) THEN pc ELSE LiveScan(v, CoinHit(v, pc, pc.cs[i]), i + 1)

CoinCollectionLive(v, pc, snapshot, lo, hi) == LiveScan(v, pc, 1)

\* "for coin in coins[:]", over snapshot[lo..hi] in list order.
RECURSIVE CoinCollection(_, _, _, _, _)
CoinCollection(v, pc, snapshot, lo, hi) ==
    IF lo > hi THEN pc
    ELSE IF lo = hi THEN CoinHit(v, pc, snapshot[lo])
    ELSE LET mid == (lo + hi) \div 2
             first == CoinCollection(v, pc, snapshot, lo, mid)
         IN  IF Evaluated(first)
             THEN CoinCollection(v, first, snapshot, mid + 1, hi)
             ELSE first

\* "Keep player in bounds".
KeepInBounds(v, p) ==
    IF p.y > GB_HEIGHT
    THEN IF v = "base" THEN [p EXCEPT !.active = FALSE]
                       ELSE [p EXCEPT !.dying = TRUE]
    ELSE p

\* A faulty dying branch that falls under full gravity (C20 must reject
\* it).
DyingStepFullGravity(p) ==
    LET t  == p.death_timer + 1
        vy == p.vel_y + GRAVITY
        y  == p.y + vy
    IN  [p EXCEPT !.death_timer = t, !.vel_y = vy, !.y = y,
                  !.animation_frame = p.animation_frame + 5,
                  !.active = ~(t > DEATH_FRAMES \/ y > GB_HEIGHT + Px(20))]

\* The dying branch of Player.move (ext): half gravity, spin, and inactive
\* after the animation.
DyingStep(p) ==
    LET t  == p.death_timer + 1
        vy == p.vel_y + GRAVITY \div 2
        y  == p.y + vy
    IN  [p EXCEPT !.death_timer = t, !.vel_y = vy, !.y = y,
                  !.animation_frame = p.animation_frame + 5,
                  !.active = ~(t > DEATH_FRAMES \/ y > GB_HEIGHT + Px(20))]

\* A faulty Player.move without the test of the active flag (C19 must
\* reject it).
PlayerMoveAlways(v, p, dx, platforms, es, cs) ==
    IF p.dying THEN [p |-> DyingStep(p), es |-> es, cs |-> cs]
    ELSE LET pe == EnemyContact(v, [p |-> AfterPlatforms(p, dx, platforms), es |-> es],
                                1, Len(es))
             pc == CoinCollection(v, [p |-> pe.p, cs |-> cs], cs, 1, Len(cs))
         IN  [p |-> KeepInBounds(v, pc.p), es |-> pe.es, cs |-> pc.cs]

\* Player.move(dx, platforms, enemies, coins): the player, the enemy list and
\* the coin list after the call.
PlayerMove(v, p, dx, platforms, es, cs) ==
    IF ~p.active THEN [p |-> p, es |-> es, cs |-> cs]
    ELSE IF p.dying THEN [p |-> DyingStep(p), es |-> es, cs |-> cs]
    ELSE LET pe == EnemyContact(v, [p |-> AfterPlatforms(p, dx, platforms), es |-> es],
                                1, Len(es))
             pc == CoinCollection(v, [p |-> pe.p, cs |-> cs], cs, 1, Len(cs))
         IN  [p |-> KeepInBounds(v, pc.p), es |-> pe.es, cs |-> pc.cs]

\* A faulty jump without the test of the jumping flag: a jump in mid-air
\* (C22 must reject it).
PlayerJumpInAir(p) ==
    IF ~p.dying
    THEN [p EXCEPT !.vel_y = IF p.power_up THEN -((JUMP_STRENGTH * 12) \div 10)
                                           ELSE -JUMP_STRENGTH,
                   !.jumping = TRUE]
    ELSE p

\* Player.jump.  The jump is 1.2 times as strong under power-up (ext).
PlayerJump(p) ==
    IF ~p.jumping /\ ~p.dying
    THEN [p EXCEPT !.vel_y = IF p.power_up THEN -((JUMP_STRENGTH * 12) \div 10)
                                           ELSE -JUMP_STRENGTH,
                   !.jumping = TRUE]
    ELSE p

\* What Player.draw does to the player: the invincibility countdown is
\* decremented only on the frames that draw the sprite.
PlayerDraw(p) ==
    IF ~p.active /\ ~p.dying THEN p
    ELSE IF p.invincible > 0 /\ ~p.dying
    THEN IF p.invincible % 6 < 3 THEN p
         ELSE [p EXCEPT !.invincible = p.invincible - 1]
    ELSE p

-----------------------------------------------------------------------------
(* Enemy.                                                                   *)

\* A faulty edge test that turns only at a platform's right edge (C14 must
\* reject it).
EdgeCheckNoLeftFlip(e, r, pf) ==
    LET gap == (e.y + e.height) - pf.y
        on == /\ e.x + e.width > pf.x
              /\ e.x < pf.x + pf.width
              /\ (IF gap < 0 THEN -gap ELSE gap) < Px(2)
        flip == r.direction > 0 /\ e.x + e.width >= pf.x + pf.width
    IN  IF on
        THEN [direction |-> IF flip THEN -r.direction ELSE r.direction,
              on_platform |-> TRUE]
        ELSE r

\* A faulty edge test that turns only at a platform's left edge (C37 must
\* reject it).
EdgeCheckNoRightFlip(e, r, pf) ==
    LET gap == (e.y + e.height) - pf.y
        on == /\ e.x + e.width > pf.x
              /\ e.x < pf.x + pf.width
              /\ (IF gap < 0 THEN -gap ELSE gap) < Px(2)
        flip == r.direction < 0 /\ e.x <= pf.x
    IN  IF on
        THEN [direction |-> IF flip THEN -r.direction ELSE r.direction,
              on_platform |-> TRUE]
        ELSE r

\* The body of the edge scan of Enemy.move for one platform; e is the enemy
\* after its step, r = [direction |-> d, on_platform |-> b] the scan so far.
EdgeCheck(e, r, pf) ==
    LET gap == (e.y + e.height) - pf.y
        on == /\ e.x + e.width > pf.x
              /\ e.x < pf.x + pf.width
              /\ (IF gap < 0 THEN -gap ELSE gap) < Px(2)
        flip == \/ (r.direction < 0 /\ e.x <= pf.x)
                \/ (r.direction > 0 /\ e.x + e.width >= pf.x + pf.width)
    IN  IF on
        THEN [direction |-> IF flip THEN -r.direction ELSE r.direction,
              on_platform |-> TRUE]
        ELSE r

\* "for platform in platforms" of Enemy.move, over platforms[lo..hi] in list
\* order.
RECURSIVE EdgeScan(_, _, _, _, _)
EdgeScan(e, r, platforms, lo, hi) ==
    IF lo > hi THEN r
    ELSE IF lo = hi THEN EdgeCheck(e, r, platforms[lo])
    ELSE LET mid == (lo + hi) \div 2
             first == EdgeScan(e, r, platforms, lo, mid)
         IN  IF Evaluated(first)
             THEN EdgeScan(e, first, platforms, mid + 1, hi)
             ELSE first

\* A faulty Enemy.move that never turns where the platform ends under the
\* enemy, only where there is no platform at all (C24 must reject it).
EnemyMoveNoEdgeTurn(e, platforms) ==
    IF ~e.active THEN e
    ELSE LET anim == IF e.animation_frame + 1 >= 20 THEN 0 ELSE e.animation_frame + 1
             m == [e EXCEPT !.x = e.x + e.direction * e.speed,
                            !.animation_frame = anim]
             r == EdgeScan(m, [direction |-> m.direction, on_platform |-> FALSE],
                           platforms, 1, Len(platforms))
         IN  [m EXCEPT !.direction = IF r.on_platform THEN m.direction
                                                      ELSE -m.direction]

\* Enemy.move(platforms).
EnemyMove(e, platforms) ==
    IF ~e.active THEN e
    ELSE LET anim == IF e.animation_frame + 1 >= 20 THEN 0 ELSE e.animation_frame + 1
             m == [e EXCEPT !.x = e.x + e.direction * e.speed,
                            !.animation_frame = anim]
             r == EdgeScan(m, [direction |-> m.direction, on_platform |-> FALSE],
                           platforms, 1, Len(platforms))
         IN  [m EXCEPT !.direction = IF r.on_platform THEN r.direction
                                                      ELSE -r.direction]

\* A faulty enemy loop that retires an enemy when it turns round (C28 must
\* reject it).
MoveEnemiesRetiring(es, platforms) ==
    [i \in 1..Len(es) |->
        LET f == EnemyMove(es[i], platforms)
        IN  [f EXCEPT !.active = f.active /\ f.direction = es[i].direction]]

\* "for enemy in self.level.enemies: enemy.move(self.level.platforms)".
MoveEnemies(es, platforms) == [i \in 1..Len(es) |-> EnemyMove(es[i], platforms)]

-----------------------------------------------------------------------------
(* Game.  A game is the record g of the fields of the Game object; the      *)
(* Level's platforms, goal and width are those of its level_num.            *)

Key == {"ESCAPE", "SPACE", "UP", "RETURN", "K_1", "K_2", "K_3", "K_4", "K_5", "F1"}

JumpKeys == {"SPACE", "UP"}

LevelKeys == {"K_1", "K_2", "K_3", "K_4", "K_5"}

EndStates == {"game_over", "victory"}

\* The level a number key selects.
KeyLevel(k) ==
    CASE k = "K_1" -> 1 [] k = "K_2" -> 2 [] k = "K_3" -> 3
      [] k = "K_4" -> 4 [] k = "K_5" -> 5 [] OTHER -> 0

\* A player record for Game.player = None: never read by the code.
NoPlayer == [NewPlayer(0, 0) EXCEPT !.active = FALSE, !.lives = 0]

\* Game.__init__.
NewGame(v) ==
    [state |-> "menu", current_level |-> 1,
     level_unlocked |-> [n \in 1..LevelCount(v) |-> n = 1],
     level_num |-> 0, player |-> NoPlayer, enemies |-> <<>>, coins |-> <<>>,
     scroll_x |-> 0]

\* A faulty start_level that keeps the scroll offset of the earlier play
\* (C7 must reject it).
start_level_keeps_scroll(v, g, num) ==
    [g EXCEPT !.current_level = num,
              !.level_num = num,
              !.enemies = LevelEnemies(v, num),
              !.coins = LevelCoins(v, num),
              !.player = NewPlayer(PlayerStart[1], PlayerStart[2]),
              !.state = "playing"]

\* Game.start_level(level_num).
start_level(v, g, num) ==
    [g EXCEPT !.current_level = num,
              !.level_num = num,
              !.enemies = LevelEnemies(v, num),
              !.coins = LevelCoins(v, num),
              !.player = NewPlayer(PlayerStart[1], PlayerStart[2]),
              !.scroll_x = 0,
              !.state = "playing"]

\* A faulty cancel that returns to the menu from every state (C4 must
\* reject it).
OnEscapeAnywhere(g, k) ==
    IF k = "ESCAPE" THEN [g EXCEPT !.state = "menu"] ELSE g

\* if event.key == K_ESCAPE: if self.state == "playing": self.state = "menu"
OnEscape(g, k) ==
    IF k = "ESCAPE" /\ g.state = "playing" THEN [g EXCEPT !.state = "menu"] ELSE g

\* if self.state == "playing": if key is SPACE or UP: self.player.jump()
OnJumpKey(g, k) ==
    IF g.state = "playing" /\ k \in JumpKeys
    THEN [g EXCEPT !.player = PlayerJump(g.player)] ELSE g

\* A faulty menu block that takes the number keys as confirm too (C33 must
\* reject it): the level-select block that follows then starts a level on
\* the same key press.
OnMenuKeyAnyKey(g, k) ==
    IF g.state = "menu" /\ (k = "RETURN" \/ k \in LevelKeys)
    THEN [g EXCEPT !.state = "level_select"] ELSE g

\* if self.state == "menu": if key == K_RETURN: self.state = "level_select"
OnMenuKey(g, k) ==
    IF g.state = "menu" /\ k = "RETURN" THEN [g EXCEPT !.state = "level_select"] ELSE g

\* A faulty level choice that starts the level without testing its unlock
\* flag (C5 must reject it).
OnSelectKeyUnguarded(v, g, k) ==
    IF g.state = "level_select" /\ KeyLevel(k) \in 1..LevelCount(v)
    THEN start_level(v, g, KeyLevel(k)) ELSE g

\* A faulty level choice that records the level asked for before it tests
\* the unlock flag (C6 must reject it).
OnSelectKeyRecordsFirst(v, g, k) ==
    IF g.state = "level_select" /\ KeyLevel(k) \in 1..LevelCount(v)
    THEN IF g.level_unlocked[KeyLevel(k)]
         THEN start_level(v, g, KeyLevel(k))
         ELSE [g EXCEPT !.current_level = KeyLevel(k)]
    ELSE g

\* if self.state == "level_select": the if/elif chain over the number keys
\* the variant knows, each guarded by its unlock flag.
OnSelectKey(v, g, k) ==
    IF /\ g.state = "level_select"
       /\ KeyLevel(k) \in 1..LevelCount(v)
       /\ g.level_unlocked[KeyLevel(k)]
    THEN start_level(v, g, KeyLevel(k)) ELSE g

\* if self.state in ["game_over", "victory"]: if key == K_RETURN: level_select
OnEndKey(g, k) ==
    IF g.state \in EndStates /\ k = "RETURN"
    THEN [g EXCEPT !.state = "level_select"] ELSE g

\* The KEYDOWN branch of the event loop for one event: the five "if" blocks
\* in the order of the code, each testing the state the previous ones left.
HandleKey(v, g, k) ==
    OnEndKey(OnSelectKey(v, OnMenuKey(OnJumpKey(OnEscape(g, k), k), k), k), k)

\* A faulty camera without the final clamp (C8 must reject it).
CameraUnclamped(v, g) ==
    LET s1 == IF g.player.x - g.scroll_x > GB_WIDTH - SCROLL_THRESH
              THEN g.player.x - (GB_WIDTH - SCROLL_THRESH) ELSE g.scroll_x
    IN  IF g.player.x - s1 < SCROLL_THRESH
        THEN g.player.x - SCROLL_THRESH ELSE s1

\* A faulty camera without a dead zone: it keeps the player at the left
\* threshold whenever it can (C25 must reject it).
CameraFollows(v, g) ==
    Max2(0, Min2(g.player.x - SCROLL_THRESH, level_width(v, g.level_num) - GB_WIDTH))

\* "Camera scrolling": the two dead-zone tests, then the clamp.
Camera(v, g) ==
    LET s1 == IF g.player.x - g.scroll_x > GB_WIDTH - SCROLL_THRESH
              THEN g.player.x - (GB_WIDTH - SCROLL_THRESH) ELSE g.scroll_x
        s2 == IF g.player.x - s1 < SCROLL_THRESH
              THEN g.player.x - SCROLL_THRESH ELSE s1
    IN  Max2(0, Min2(s2, level_width(v, g.level_num) - GB_WIDTH))

\* self.level_unlocked[i - 1] = True.  A write past the end of the list (an
\* IndexError in Python) shows here as a flag outside 1..LevelCount.
SetFlag(flags, i) ==
    [n \in (DOMAIN flags) \cup {i} |-> n = i \/ (n \in DOMAIN flags /\ flags[n])]

\* A faulty victory check that unlocks the cleared level only (C3 must
\* reject it).
CheckVictoryCurrentOnly(v, g) ==
    IF collision(g.player, LevelGoal(v, g.level_num))
    THEN [g EXCEPT !.level_unlocked = SetFlag(g.level_unlocked, g.current_level),
                   !.state = "victory"]
    ELSE g

\* A faulty victory check that opens the level after the next one (C31 must
\* reject it).
CheckVictorySkipsLevel(v, g) ==
    IF collision(g.player, LevelGoal(v, g.level_num))
    THEN LET u1 == SetFlag(g.level_unlocked, g.current_level)
             u2 == IF g.current_level + 1 < LevelCount(v)
                   THEN SetFlag(u1, g.current_level + 2) ELSE u1
         IN  [g EXCEPT !.level_unlocked = u2, !.state = "victory"]
    ELSE g

\* "Check victory".
CheckVictory(v, g) ==
    IF collision(g.player, LevelGoal(v, g.level_num))
    THEN LET u1 == SetFlag(g.level_unlocked, g.current_level)
             u2 == IF g.current_level < LevelCount(v)
                   THEN SetFlag(u1, g.current_level + 1) ELSE u1
         IN  [g EXCEPT !.level_unlocked = u2, !.state = "victory"]
    ELSE g

\* A faulty game-over check that opens the next level as a consolation
\* (C32 must reject it).
CheckGameOverUnlocks(v, g) ==
    IF ~g.player.active /\ (v = "base" \/ ~g.player.dying)
    THEN [g EXCEPT !.state = "game_over",
                   !.level_unlocked =
                       IF g.current_level < LevelCount(v)
                       THEN SetFlag(g.level_unlocked, g.current_level + 1)
                       ELSE g.level_unlocked]
    ELSE g

\* "Check game over": ext also requires that the player is not dying.
CheckGameOver(v, g) ==
    IF ~g.player.active /\ (v = "base" \/ ~g.player.dying)
    THEN [g EXCEPT !.state = "game_over"] ELSE g

\* draw_game, as far as it changes the game: Player.draw.  (Coin.draw also
\* advances the coin's spin phase, which only selects the sprite drawn.)
draw_game(g) == [g EXCEPT !.player = PlayerDraw(g.player)]

\* A faulty main loop that keeps the enemies patrolling behind the
\* game-over and victory screens (C29 must reject it).
GameFrameAnimated(v, g, dx) ==
    IF g.state = "playing"
    THEN LET platforms == LevelPlatforms(v, g.level_num)
             m  == PlayerMove(v, g.player, dx, platforms, g.enemies, g.coins)
             g1 == [g EXCEPT !.player = m.p,
                             !.enemies = MoveEnemies(m.es, platforms),
                             !.coins = m.cs]
             g2 == [g1 EXCEPT !.scroll_x = Camera(v, g1)]
         IN  draw_game(CheckGameOver(v, CheckVictory(v, g2)))
    ELSE IF g.state \in EndStates
    THEN draw_game([g EXCEPT !.enemies =
                        MoveEnemies(g.enemies, LevelPlatforms(v, g.level_num))])
    ELSE g

\* One iteration of the main loop after the events: the "playing" branch
\* (player, enemies, camera, victory, game over, draw), or the drawing of the
\* other states.  dx is the signed speed read from the held keys.
GameFrame(v, g, dx) ==
    IF g.state = "playing"
    THEN LET platforms == LevelPlatforms(v, g.level_num)
             m  == PlayerMove(v, g.player, dx, platforms, g.enemies, g.coins)
             g1 == [g EXCEPT !.player = m.p,
                             !.enemies = MoveEnemies(m.es, platforms),
                             !.coins = m.cs]
             g2 == [g1 EXCEPT !.scroll_x = Camera(v, g1)]
         IN  draw_game(CheckGameOver(v, CheckVictory(v, g2)))
    ELSE IF g.state \in EndStates
    THEN draw_game(g)
    ELSE g

-----------------------------------------------------------------------------
(* Drawing.  A draw method writes pixels with surface.set_at((x, y), color). *)
(* The writes of one loop nest are kept as a block [xs, ys]: the columns    *)
(* and the rows (in whole pixels) of the set_at calls, every column being   *)
(* written in every row.  For a sprite the block is the 8x8 cell of the     *)
(* loop; which of its pixels carry ink is left open.                        *)

\* int(v) of a coordinate: truncation toward zero, to whole pixels.
Trunc(v) == IF v >= 0 THEN v \div 100 ELSE -((-v) \div 100)

\* The c in lo..lo+n-1 that pass "0 <= c < limit" (limit is GB_WIDTH or
\* GB_HEIGHT).
Visible(lo, n, limit) == {c \in lo..(lo + n - 1) : 0 <= c /\ Px(c) < limit}

\* An 8x8 sprite loop: "if 0 <= x_pos + x < GB_WIDTH and
\* 0 <= y_pos + y < GB_HEIGHT: surface.set_at(...)".
SpriteWrites(x_pos, y_pos) ==
    [xs |-> Visible(x_pos, 8, GB_WIDTH), ys |-> Visible(y_pos, 8, GB_HEIGHT)]

\* The pixels covered by the tiles of range(0, n, 8).
TileSpan(n) == 8 * ((n + 7) \div 8)

\* Platform.draw and draw_tile: every pixel of every tile that passes the
\* test is written.
PlatformWrites(pf, scroll) ==
    {[xs |-> Visible(Trunc(pf.x - scroll), TileSpan(Trunc(pf.width)), GB_WIDTH),
      ys |-> Visible(Trunc(pf.y), TileSpan(Trunc(pf.height)), GB_HEIGHT)]}

\* Enemy.draw: nothing for an inactive enemy.
EnemyWrites(e, scroll) ==
    IF e.active THEN {SpriteWrites(Trunc(e.x - scroll), Trunc(e.y))} ELSE {}

\* Coin.draw.
CoinWrites(c, scroll) == {SpriteWrites(Trunc(c.x - scroll), Trunc(c.y))}

\* The whole-pixel shift of the flag: none in base; in ext
\* int(wave * (1 - y/5)) with wave = sin(animation) * 2, any of -2..2.
FlagShifts(v) == IF v = "base" THEN 0..0 ELSE -2..2

\* Goal.draw.  The pole: for each of the 32 rows, if x_pos + 7 and the row
\* pass the test, the pixels at x_pos + 7 and at x_pos + 8 are written.  The
\* flag: 8x5 cells at x_pos + 9, y_pos + 5, each tested at its own place.
GoalWrites(v, goal, scroll) ==
    LET x_pos == Trunc(goal.x - scroll)
        y_pos == Trunc(goal.y)
        pole == [xs |-> IF 0 <= x_pos + 7 /\ Px(x_pos + 7) < GB_WIDTH
                        THEN (x_pos + 7)..(x_pos + 8) ELSE {},
                 ys |-> Visible(y_pos, 32, GB_HEIGHT)]
    IN  {pole} \cup
        {[xs |-> Visible(x_pos + 9 + d, 8, GB_WIDTH),
          ys |-> Visible(y_pos + 5, 5, GB_HEIGHT)] : d \in FlagShifts(v)}

\* Player.draw: nothing when inactive (and not dying), nothing on the hidden
\* frames of the blink; the dying sprite of ext is shifted by
\* int(sin(angle * 0.1) * 2), any of -2..2; the power-up sparkle is one
\* pixel at x_pos, y_pos + randint(-2, 9), tested like the others.
PlayerWrites(p, scroll) ==
    LET x_pos == Trunc(p.x - scroll)
        y_pos == Trunc(p.y)
    IN  IF ~p.active /\ ~p.dying THEN {}
        ELSE IF p.dying
        THEN {[xs |-> Visible(x_pos - 2, 12, GB_WIDTH),
               ys |-> Visible(y_pos, 8, GB_HEIGHT)]}
        ELSE IF p.invincible > 0 /\ p.invincible % 6 < 3 THEN {}
        ELSE {SpriteWrites(x_pos, y_pos)} \cup
             (IF p.power_up
              THEN {[xs |-> Visible(x_pos - 2, 12, GB_WIDTH),
                     ys |-> Visible(y_pos - 2, 12, GB_HEIGHT)]}
              ELSE {})

\* The writes of draw_game for the platforms, coins, enemies, goal and
\* player of g.
DrawWrites(v, g) ==
    LET platforms == LevelPlatforms(v, g.level_num)
    IN  UNION {PlatformWrites(platforms[k], g.scroll_x) : k \in 1..Len(platforms)}
        \cup UNION {CoinWrites(g.coins[k], g.scroll_x) : k \in 1..Len(g.coins)}
        \cup UNION {EnemyWrites(g.enemies[k], g.scroll_x) : k \in 1..Len(g.enemies)}
        \cup GoalWrites(v, LevelGoal(v, g.level_num), g.scroll_x)
        \cup PlayerWrites(g.player, g.scroll_x)

\* The game as draw_game finds it on a frame: after the update of the
\* playing branch, or as it stands in game_over and victory.
DrawnGame(v, g, dx) ==
    IF g.state = "playing"
    THEN LET platforms == LevelPlatforms(v, g.level_num)
             m  == PlayerMove(v, g.player, dx, platforms, g.enemies, g.coins)
             g1 == [g EXCEPT !.player = m.p,
                             !.enemies = MoveEnemies(m.es, platforms),
                             !.coins = m.cs]
             g2 == [g1 EXCEPT !.scroll_x = Camera(v, g1)]
         IN  CheckGameOver(v, CheckVictory(v, g2))
    ELSE g

-----------------------------------------------------------------------------
(* The environment.  The keys and the held direction of every frame are     *)
(* inputs.  To reach the far end of a level within a bounded search, the    *)
(* inputs of a level follow a pilot chosen when the level starts:           *)
(*   "runner": holds right and presses jump on the frames of JumpFrames;    *)
(*   "faller": holds left (and walks off the left end of the ground);       *)
(*   "free"  : any key and any direction, for MaxFreeFrames frames.         *)
(* env.lf counts the frames of the level played so far.                     *)

MaxFreeFrames == 5
MaxRunFrames == 800
MaxFallFrames == 80
MaxCancelDelay == 1

Dx == {-PLAYER_SPEED, 0, PLAYER_SPEED}

Pilots == {"faller", "free", "runner"}

NoPilot == {}

IdleEnv == [pilot |-> "none", lf |-> 0, free_left |-> 0]

StartEnv(pilot) ==
    [pilot |-> pilot, lf |-> 0,
     free_left |-> IF pilot = "free" THEN MaxFreeFrames ELSE 0]

\* The frames on which the runner presses jump: a fixed rhythm per level
\* that takes the player over the platforms, the enemies and (in ext) the
\* gaps of the ground, to the goal.
JumpFrames(v, num, lf) ==
    IF v = "base"
    THEN CASE num = 1 -> lf % 20 = 0
           [] num = 2 -> TRUE
           [] num = 3 -> lf % 10 = 0
           [] OTHER -> FALSE
    ELSE CASE num = 1 -> lf % 20 = 0
           [] num = 2 -> lf % 20 = 5
           [] num = 3 -> lf % 30 = 20
           [] OTHER -> FALSE

\* The runner is about to press jump: the press is due and would take effect.
JumpDue(v, g, e) ==
    /\ e.pilot = "runner"
    /\ JumpFrames(v, g.level_num, e.lf)
    /\ ~g.player.jumping /\ ~g.player.dying /\ g.player.active

TheGame ==
    [state |-> state, current_level |-> current_level,
     level_unlocked |-> level_unlocked, level_num |-> level_num,
     player |-> player, enemies |-> enemies, coins |-> coins,
     scroll_x |-> scroll_x]

SetGame(g) ==
    /\ state' = g.state
    /\ current_level' = g.current_level
    /\ level_unlocked' = g.level_unlocked
    /\ level_num' = g.level_num
    /\ player' = g.player
    /\ enemies' = g.enemies
    /\ coins' = g.coins
    /\ scroll_x' = g.scroll_x

\* The keys the environment may press in the current state.
KeyAllowed(k) ==
    IF state # "playing" THEN TRUE
    ELSE CASE env.pilot = "free" ->
                k = "ESCAPE" => env.free_left >= MaxFreeFrames - MaxCancelDelay
           [] env.pilot = "runner" -> k = "SPACE" /\ JumpDue(variant, TheGame, env)
           [] OTHER -> FALSE

\* One KEYDOWN event.  last_input records the key, except a key handled
\* during play that leaves the game playing.
KeyDown(pilots) ==
    \E k \in Key :
        /\ KeyAllowed(k)
        /\ LET g == HandleKey(variant, TheGame, k)
           IN  /\ SetGame(g)
               /\ last_input' = IF state = "playing" /\ g.state = "playing"
                                 THEN last_input ELSE k
               /\ IF g.state # "playing" THEN env' = IdleEnv
                  ELSE IF state # "playing"
                  THEN \E pl \in pilots : env' = StartEnv(pl)
                  ELSE env' = env
        /\ UNCHANGED <<variant, boxA, boxB, hit>>

\* The held direction the environment may choose for the next frame.
DxAllowed(dx) ==
    IF state # "playing" THEN dx = 0
    ELSE CASE env.pilot = "free" -> env.free_left > 0
           [] env.pilot = "runner" ->
                /\ dx = PLAYER_SPEED
                /\ env.lf < MaxRunFrames
                /\ ~JumpDue(variant, TheGame, env)
           [] env.pilot = "faller" ->
                /\ dx = -PLAYER_SPEED
                /\ env.lf < MaxFallFrames
           [] OTHER -> FALSE

\* The rest of one iteration of the main loop.
Frame ==
    \E dx \in Dx :
        /\ DxAllowed(dx)
        /\ LET g == GameFrame(variant, TheGame, dx)
           IN  /\ SetGame(g)
               /\ IF g.state # "playing" THEN env' = IdleEnv
                  ELSE IF env.pilot = "free"
                  THEN env' = [env EXCEPT !.lf = env.lf + 1,
                                          !.free_left = env.free_left - 1]
                  ELSE env' = [env EXCEPT !.lf = env.lf + 1]
        /\ UNCHANGED <<variant, last_input, boxA, boxB, hit>>

NoBox == [x |-> 0, y |-> 0, width |-> 0, height |-> 0]

Init ==
    /\ variant \in Variants
    /\ LET g == NewGame(variant)
       IN  /\ state = g.state
           /\ current_level = g.current_level
           /\ level_unlocked = g.level_unlocked
           /\ level_num = g.level_num
           /\ player = g.player
           /\ enemies = g.enemies
           /\ coins = g.coins
           /\ scroll_x = g.scroll_x
    /\ last_input = "none"
    /\ env = IdleEnv
    /\ boxA = NoBox /\ boxB = NoBox /\ hit = <<>>

Next == KeyDown(Pilots) \/ Frame

Spec == Init /\ [][Next]_vars

-----------------------------------------------------------------------------
(* A level entered on the last life.  Player.draw returns before its        *)
(* countdown whenever invincible % 6 < 3, and the value set by a hit, 60,   *)
(* satisfies that, so after the first hit of a level the player stays       *)
(* invincible and a run from Game() never has fewer than two lives.  The    *)
(* runs below therefore start from a level just started by start_level,     *)
(* with the player's lives set to 1, on the levels where the runner walks   *)
(* into an enemy.                                                            *)

LastLifeLevels(v) == IF v = "base" THEN {2} ELSE {2, 3}

InitLastLife ==
    /\ variant \in Variants
    /\ \E n \in LastLifeLevels(variant) :
          LET g0 == NewGame(variant)
              g1 == [g0 EXCEPT !.level_unlocked =
                                   [m \in 1..LevelCount(variant) |-> m <= n]]
              g2 == start_level(variant, g1, n)
              g  == [g2 EXCEPT !.player.lives = 1]
          IN  /\ state = g.state
              /\ current_level = g.current_level
              /\ level_unlocked = g.level_unlocked
              /\ level_num = g.level_num
              /\ player = g.player
              /\ enemies = g.enemies
              /\ coins = g.coins
              /\ scroll_x = g.scroll_x
    /\ last_input = "none"
    /\ env = StartEnv("runner")
    /\ boxA = NoBox /\ boxB = NoBox /\ hit = <<>>

NextLastLife == KeyDown(NoPilot) \/ Frame

SpecLastLife == InitLastLife /\ [][NextLastLife]_vars

-----------------------------------------------------------------------------
(* The overlap test called directly on two boxes: every pair of boxes with  *)
(* corners in 0..MaxBoxPos and sides in 1..MaxBoxSize pixels.                *)

MaxBoxPos == 2
MaxBoxSize == 2

Boxes ==
    {[x |-> Px(x), y |-> Px(y), width |-> Px(w), height |-> Px(h)] :
        x \in 0..MaxBoxPos, y \in 0..MaxBoxPos,
        w \in 1..MaxBoxSize, h \in 1..MaxBoxSize}

InitOverlap ==
    /\ variant = "base"
    /\ LET g == NewGame(variant)
       IN  /\ state = g.state
           /\ current_level = g.current_level
           /\ level_unlocked = g.level_unlocked
           /\ level_num = g.level_num
           /\ player = g.player
           /\ enemies = g.enemies
           /\ coins = g.coins
           /\ scroll_x = g.scroll_x
    /\ last_input = "none"
    /\ env = IdleEnv
    /\ boxA \in Boxes /\ boxB \in Boxes /\ hit = <<>>

\* boxA.collision(boxB).
Overlaps ==
    /\ hit = <<>>
    /\ hit' = <<collision(boxA, boxB)>>
    /\ UNCHANGED <<variant, state, current_level, level_unlocked, level_num,
                   player, enemies, coins, scroll_x, last_input, env, boxA, boxB>>

NextOverlap == Overlaps

SpecOverlap == InitOverlap /\ [][NextOverlap]_vars

-----------------------------------------------------------------------------
(* An enemy placed at the left edge of a platform: one freshly constructed   *)
(* enemy (direction -1) standing on any platform of any level with its x at  *)
(* that platform's x, moved by the enemy loop of the playing branch against  *)
(* the level's whole platform list.  boxA keeps the platform, env.lf counts *)
(* the ticks.                                                                *)

MaxEdgeTicks == 4

EnemyTypes(v) == IF v = "base" THEN 0..0 ELSE 0..1

EdgeEnemy(pf, enemy_type) ==
    [Enemy(0, 0, enemy_type) EXCEPT !.x = pf.x, !.y = pf.y - Px(8)]

InitEnemyEdge ==
    /\ variant \in Variants
    /\ \E n \in 1..LevelCount(variant) :
          LET g0 == NewGame(variant)
              g1 == [g0 EXCEPT !.level_unlocked =
                                   [m \in 1..LevelCount(variant) |-> m <= n]]
              g2 == start_level(variant, g1, n)
          IN  /\ state = g2.state
              /\ current_level = g2.current_level
              /\ level_unlocked = g2.level_unlocked
              /\ level_num = g2.level_num
              /\ player = g2.player
              /\ coins = g2.coins
              /\ scroll_x = g2.scroll_x
              /\ \E k \in 1..Len(LevelPlatforms(variant, n)) :
                    /\ boxA = LevelPlatforms(variant, n)[k]
                    /\ \E t \in EnemyTypes(variant) :
                          enemies = <<EdgeEnemy(boxA, t)>>
    /\ last_input = "none"
    /\ env = IdleEnv
    /\ boxB = NoBox /\ hit = <<>>

\* "for enemy in self.level.enemies: enemy.move(self.level.platforms)".
EnemyTick ==
    /\ env.lf < MaxEdgeTicks
    /\ enemies' = MoveEnemies(enemies, LevelPlatforms(variant, level_num))
    /\ env' = [env EXCEPT !.lf = env.lf + 1]
    /\ UNCHANGED <<variant, state, current_level, level_unlocked, level_num,
                   player, coins, scroll_x, last_input, boxA, boxB, hit>>

NextEnemyEdge == EnemyTick

SpecEnemyEdge == InitEnemyEdge /\ [][NextEnemyEdge]_vars

-----------------------------------------------------------------------------
(* The coin scan of Player.move on its own: a new player at the spawn point  *)
(* and MaxScanCoins coins at the player's height, each at one of ScanXs:     *)
(* left of the player and touching it, overlapping its left half,            *)
(* overlapping its right half, right of it and touching.                     *)

MaxScanCoins == 4

ScanXs == {PlayerStart[1] - 8, PlayerStart[1] - 4, PlayerStart[1] + 4, PlayerStart[1] + 8}

ScanCoins(xs) == [k \in 1..MaxScanCoins |-> Coin(k, Px(xs[k]), Px(PlayerStart[2]))]

InitCoinScan ==
    /\ variant \in Variants
    /\ LET g == NewGame(variant)
       IN  /\ state = "playing"
           /\ current_level = 1
           /\ level_unlocked = g.level_unlocked
           /\ level_num = 1
           /\ player = NewPlayer(PlayerStart[1], PlayerStart[2])
           /\ enemies = <<>>
           /\ \E xs \in [1..MaxScanCoins -> ScanXs] : coins = ScanCoins(xs)
           /\ scroll_x = 0
    /\ last_input = "none"
    /\ env = IdleEnv
    /\ boxA = NoBox /\ boxB = NoBox /\ hit = <<>>

\* "Coin collection" of Player.move.
CoinScan ==
    /\ env.lf = 0
    /\ LET pc == CoinCollection(variant, [p |-> player, cs |-> coins],
                                coins, 1, Len(coins))
       IN  player' = pc.p /\ coins' = pc.cs
    /\ env' = [env EXCEPT !.lf = 1]
    /\ UNCHANGED <<variant, state, current_level, level_unlocked, level_num,
                   enemies, scroll_x, last_input, boxA, boxB, hit>>

NextCoinScan == CoinScan

SpecCoinScan == InitCoinScan /\ [][NextCoinScan]_vars

-----------------------------------------------------------------------------
(* A jump key pressed in a level being played, for a player in any          *)
(* combination of its jumping, dying and power-up flags (the last two in    *)
(* ext only: base never sets them) and any vertical speed of                *)
(* -MaxJumpVel..MaxJumpVel times the gravity.                                *)

MaxJumpVel == 6

\* The values of a flag that only ext ever sets.
NeverSet == {FALSE}

ExtFlag(v) == IF v = "base" THEN NeverSet ELSE BOOLEAN

JumpPlayers(v) ==
    {[NewPlayer(PlayerStart[1], PlayerStart[2]) EXCEPT
          !.vel_y = k * GRAVITY, !.jumping = j, !.dying = d, !.power_up = w] :
        k \in -MaxJumpVel..MaxJumpVel, j \in BOOLEAN,
        d \in ExtFlag(v), w \in ExtFlag(v)}

InitJump ==
    /\ variant \in Variants
    /\ LET g == start_level(variant, NewGame(variant), 1)
       IN  /\ state = g.state
           /\ current_level = g.current_level
           /\ level_unlocked = g.level_unlocked
           /\ level_num = g.level_num
           /\ player \in JumpPlayers(variant)
           /\ enemies = g.enemies
           /\ coins = g.coins
           /\ scroll_x = g.scroll_x
    /\ last_input = "none"
    /\ env = IdleEnv
    /\ boxA = NoBox /\ boxB = NoBox /\ hit = <<>>

\* The KEYDOWN event of K_SPACE or K_UP.
JumpKeyDown ==
    /\ env.lf = 0
    /\ \E k \in JumpKeys : SetGame(HandleKey(variant, TheGame, k))
    /\ env' = [env EXCEPT !.lf = 1]
    /\ UNCHANGED <<variant, last_input, boxA, boxB, hit>>

NextJump == JumpKeyDown

SpecJump == InitJump /\ [][NextJump]_vars

-----------------------------------------------------------------------------
(* The camera step on its own, in level 1: the scroll offset at any         *)
(* multiple of 40 pixels within the level, the player at the left edge of   *)
(* the dead zone, one pixel inside it, in the middle, one pixel inside the  *)
(* right edge, or at the right edge; then one horizontal step of the player *)
(* in the held direction, followed by "Camera scrolling".  boxA.x keeps the *)
(* scroll offset before the step.                                            *)

MaxScrollSteps == 16

BandPlaces ==
    {SCROLL_THRESH, SCROLL_THRESH + Px(1), GB_WIDTH \div 2,
     GB_WIDTH - SCROLL_THRESH - Px(1), GB_WIDTH - SCROLL_THRESH}

ScrollPlaces(v) ==
    {Px(40 * i) : i \in {j \in 0..MaxScrollSteps :
                            Px(40 * j) <= level_width(v, 1) - GB_WIDTH}}

InitCamera ==
    /\ variant \in Variants
    /\ LET g == start_level(variant, NewGame(variant), 1)
       IN  /\ state = g.state
           /\ current_level = g.current_level
           /\ level_unlocked = g.level_unlocked
           /\ level_num = g.level_num
           /\ scroll_x \in ScrollPlaces(variant)
           /\ \E d \in BandPlaces : player = [g.player EXCEPT !.x = scroll_x + d]
           /\ enemies = g.enemies
           /\ coins = g.coins
    /\ last_input = "none"
    /\ env = IdleEnv
    /\ boxA = [NoBox EXCEPT !.x = scroll_x]
    /\ boxB = NoBox /\ hit = <<>>

\* "self.x += dx" of the player, then "Camera scrolling" of Game.run.
CameraStep ==
    /\ env.lf = 0
    /\ \E dx \in Dx :
          LET g == [TheGame EXCEPT !.player = MoveHorizontal(player, dx)]
          IN  /\ player' = g.player
              /\ scroll_x' = Camera(variant, g)
    /\ env' = [env EXCEPT !.lf = 1]
    /\ UNCHANGED <<variant, state, current_level, level_unlocked, level_num,
                   enemies, coins, last_input, boxA, boxB, hit>>

NextCamera == CameraStep

SpecCamera == InitCamera /\ [][NextCamera]_vars

-----------------------------------------------------------------------------
(* The enemy and coin scans of Player.move with the coin count close to a    *)
(* multiple of 10: a player at the spawn point, resting or falling, with a   *)
(* count of 10 t - d (t in 1..MaxTens, d in 0..MaxBelowTen), one enemy half  *)
(* a sprite below the player and MaxScanCoins coins at the player's height,  *)
(* all at places of ScanXs.  ext levels 4 and 5 hold 20 and 30 coins and 4   *)
(* and 15 enemies, so one level can take the count past 10 and past 20; a    *)
(* count of 10 or more without the power-up is one whose 10th and 20th       *)
(* points came from stomps.                                                  *)

MaxTens == 2

MaxBelowTen == 2

Tallies == {10 * t - d : t \in 1..MaxTens, d \in 0..MaxBelowTen}

PowerUpLevel == 5

TallyPlayers ==
    {[NewPlayer(PlayerStart[1], PlayerStart[2]) EXCEPT
          !.coins = c, !.power_up = w, !.vel_y = k * GRAVITY] :
        c \in Tallies, w \in BOOLEAN, k \in 0..1}

InitPowerUp ==
    /\ variant = "ext"
    /\ LET g0 == NewGame(variant)
           g  == [g0 EXCEPT !.level_unlocked =
                               [m \in 1..LevelCount(variant) |-> m <= PowerUpLevel]]
       IN  /\ state = "playing"
           /\ current_level = PowerUpLevel
           /\ level_unlocked = g.level_unlocked
           /\ level_num = PowerUpLevel
           /\ player \in {p \in TallyPlayers : p.power_up => p.coins >= 10}
           /\ \E x \in ScanXs : enemies = <<Enemy(x, PlayerStart[2] + 4, 0)>>
           /\ \E xs \in [1..MaxScanCoins -> ScanXs] : coins = ScanCoins(xs)
           /\ scroll_x = 0
    /\ last_input = "none"
    /\ env = IdleEnv
    /\ boxA = NoBox /\ boxB = NoBox /\ hit = <<>>

\* "Enemy collision" and "Coin collection" of Player.move.
PowerUpScan ==
    /\ env.lf = 0
    /\ LET pe == EnemyContact(variant, [p |-> player, es |-> enemies],
                              1, Len(enemies))
           pc == CoinCollection(variant, [p |-> pe.p, cs |-> coins],
                                coins, 1, Len(coins))
       IN  player' = pc.p /\ enemies' = pe.es /\ coins' = pc.cs
    /\ env' = [env EXCEPT !.lf = 1]
    /\ UNCHANGED <<variant, state, current_level, level_unlocked, level_num,
                   scroll_x, last_input, boxA, boxB, hit>>

NextPowerUp == PowerUpScan

SpecPowerUp == InitPowerUp /\ [][NextPowerUp]_vars

-----------------------------------------------------------------------------
(* The enemy loop of the playing branch on its own, on every level of both   *)
(* variants: the level as Game.start_level builds it, and the enemies        *)
(* updated once per frame for MaxPatrolTicks frames, which is more than a    *)
(* full patrol of the widest platform an enemy is placed on.                 *)

MaxPatrolTicks == 400

InitPatrol ==
    /\ variant \in Variants
    /\ \E n \in 1..LevelCount(variant) :
          LET g0 == NewGame(variant)
              g1 == [g0 EXCEPT !.level_unlocked =
                                   [m \in 1..LevelCount(variant) |-> m <= n]]
              g  == start_level(variant, g1, n)
          IN  /\ state = g.state
              /\ current_level = g.current_level
              /\ level_unlocked = g.level_unlocked
              /\ level_num = g.level_num
              /\ player = g.player
              /\ enemies = g.enemies
              /\ coins = g.coins
              /\ scroll_x = g.scroll_x
    /\ last_input = "none"
    /\ env = IdleEnv
    /\ boxA = NoBox /\ boxB = NoBox /\ hit = <<>>

\* "for enemy in self.level.enemies: enemy.move(self.level.platforms)".
PatrolTick ==
    /\ env.lf < MaxPatrolTicks
    /\ enemies' = MoveEnemies(enemies, LevelPlatforms(variant, level_num))
    /\ env' = [env EXCEPT !.lf = env.lf + 1]
    /\ UNCHANGED <<variant, state, current_level, level_unlocked, level_num,
                   player, coins, scroll_x, last_input, boxA, boxB, hit>>

NextPatrol == PatrolTick

SpecPatrol == InitPatrol /\ [][NextPatrol]_vars

-----------------------------------------------------------------------------
(* Claims.                                                                   *)

\* C1: while a level is being played, a frame that leaves the player
\* inactive ends in game_over: in base on the frame of the deactivation, in
\* ext on the frame the dying animation deactivates the player.  So no
\* frame ends with the game still playing and the player inactive.
\* Violated in ext: Player.move sets active = False at the end of the dying
\* animation and leaves dying = True, and the game-over test requires
\* "not active and not dying".
C1_InactiveEndsGame == state = "playing" => player.active

PlayedFrame ==
    /\ state = "playing"
    /\ state' # "menu"
    /\ (env'.lf = env.lf + 1 \/ state' # "playing")

\* C3: a frame of play after whose player update the player overlaps the
\* Goal ends in victory, with the flag of the current level set and, unless
\* it is the last level, the flag of the next one; the flags stay the
\* flags of levels 1..level count (nothing is written past the last).
C3_GoalWins ==
    [][(PlayedFrame /\ collision(player', LevelGoal(variant, level_num)))
          => /\ state' = "victory"
             /\ DOMAIN level_unlocked' = 1..LevelCount(variant)
             /\ level_unlocked'[current_level]
             /\ current_level < LevelCount(variant)
                    => level_unlocked'[current_level + 1]]_vars

\* The last level of base cleared after levels 1 and 2.
C3_Witness ==
    /\ variant = "base" /\ state = "victory"
    /\ current_level = LevelCount(variant)
    /\ collision(player, LevelGoal(variant, level_num))
    /\ \A n \in 1..LevelCount(variant) : level_unlocked[n]

\* C4: the state changes only by menu -> level_select on confirm,
\* level_select -> playing on the key of an unlocked level, playing -> menu
\* on cancel, playing -> victory, playing -> game_over (both by a frame, not
\* a key), and game_over / victory -> level_select on confirm.  Every other
\* key in every other state leaves the state as it is.
C4_OnlyListedTransitions ==
    [][state' # state =>
          \/ /\ state = "menu" /\ state' = "level_select"
             /\ last_input' = "RETURN"
          \/ /\ state = "level_select" /\ state' = "playing"
             /\ KeyLevel(last_input') \in 1..LevelCount(variant)
             /\ level_unlocked[KeyLevel(last_input')]
          \/ /\ state = "playing" /\ state' = "menu"
             /\ last_input' = "ESCAPE"
          \/ /\ state = "playing" /\ state' \in EndStates
             /\ PlayedFrame /\ last_input' = last_input
          \/ /\ state \in EndStates /\ state' = "level_select"
             /\ last_input' = "RETURN"]_vars

\* Cancel was pressed on the game-over screen and the game is still there.
C4_Witness == state = "game_over" /\ last_input = "ESCAPE"

\* C5: while playing, current_level is a level of the variant and its
\* unlock flag is set; until a level has been started, only level 1 is
\* unlocked.
C5_PlayingIsUnlocked ==
    /\ state = "playing"
          => /\ current_level \in 1..LevelCount(variant)
             /\ level_unlocked[current_level]
    /\ level_num = 0
          => level_unlocked = [n \in 1..LevelCount(variant) |-> n = 1]

\* Level 2 is being played (it was unlocked by clearing level 1).
C5_Witness == state = "playing" /\ current_level = 2 /\ level_num = 2

\* C6: in level_select, the key of a locked level or of a level the variant
\* does not have changes nothing of the game: state, current_level, the
\* level (its number, enemies, coins), the player, the scroll offset and
\* the unlock flags.
C6_LockedKeyIgnored ==
    [][(/\ state = "level_select"
        /\ last_input' \in LevelKeys
        /\ ~(/\ KeyLevel(last_input') \in 1..LevelCount(variant)
             /\ level_unlocked[KeyLevel(last_input')]))
          => TheGame' = TheGame]_vars

\* After a level was played, the key of the locked level 2 was pressed in
\* level_select.
C6_Witness ==
    /\ state = "level_select" /\ last_input = "K_2"
    /\ ~level_unlocked[2] /\ level_num > 0

\* The state start_level leaves: scroll 0, the player at the spawn point
\* with 3 lives and nothing collected, the coins and enemies of the
\* template.
FreshLevel ==
    /\ scroll_x = 0
    /\ level_num = current_level
    /\ player.x = Px(20) /\ player.y = Px(100)
    /\ player.lives = 3 /\ player.coins = 0 /\ player.invincible = 0
    /\ player.vel_y = 0 /\ player.active /\ ~player.jumping
    /\ ~player.dying /\ ~player.power_up
    /\ coins = LevelCoins(variant, current_level)
    /\ Len(enemies) = Len(LevelEnemies(variant, current_level))
    /\ \A i \in 1..Len(enemies) :
          /\ enemies[i].active /\ enemies[i].direction = -1
          /\ enemies[i].x = LevelEnemies(variant, current_level)[i].x
          /\ enemies[i].y = LevelEnemies(variant, current_level)[i].y

\* C7: every entry into playing leaves a fresh level and player, whatever
\* the earlier play left behind.
C7_FreshStart == [][(state # "playing" /\ state' = "playing") => FreshLevel']_vars

\* Level 1 started again after it was cleared (which moved the camera,
\* collected a coin and left the player at the goal).
C7_Witness ==
    /\ state = "playing" /\ env.lf = 0 /\ FreshLevel
    /\ current_level = 1 /\ level_unlocked[2]

\* How far outside the level C8 places the player.
MaxOutside == 40

\* C8: the scroll offset is within 0 .. level width - screen width, for
\* every level and wherever the player is (0 until a level is started);
\* and the camera step keeps it there for a player placed MaxOutside
\* pixels left of x = 0 or right of the level's width.
C8_ScrollClamped ==
    IF level_num = 0 THEN scroll_x = 0
    ELSE LET last == level_width(variant, level_num) - GB_WIDTH
         IN  /\ 0 <= scroll_x /\ scroll_x <= last
             /\ \A x \in {-Px(MaxOutside), level_width(variant, level_num) + Px(MaxOutside)} :
                   LET s == Camera(variant, [TheGame EXCEPT !.player.x = x])
                   IN  0 <= s /\ s <= last

\* The camera holds at the right end of the level although the player is
\* beyond the dead zone.
C8_Witness ==
    /\ state = "playing"
    /\ scroll_x = level_width(variant, level_num) - GB_WIDTH
    /\ player.x - scroll_x > GB_WIDTH - SCROLL_THRESH

\* C9: the overlap test gives the same answer with its operands exchanged,
\* and two boxes of which one ends exactly where the other begins, on
\* either axis and in either order, do not overlap.
C9_OverlapSymmetricStrict ==
    hit # <<>> =>
        /\ hit[1] = collision(boxB, boxA)
        /\ (\/ boxA.x + boxA.width = boxB.x
            \/ boxB.x + boxB.width = boxA.x
            \/ boxA.y + boxA.height = boxB.y
            \/ boxB.y + boxB.height = boxA.y) => ~hit[1]

\* boxB begins where boxA ends on x while their y ranges overlap: tested,
\* and found not to overlap.
C9_Witness ==
    /\ hit = <<FALSE>>
    /\ boxA.x + boxA.width = boxB.x
    /\ boxA.y < boxB.y + boxB.height /\ boxA.y + boxA.height > boxB.y

\* The landing case of C10 for platform pf: p is the player before the
\* tick, h after the horizontal pass and f after gravity.  The horizontal
\* extents overlap, the bottom edge was at or above the platform's top
\* before the tick, and gravity moves it, falling, past that top.
LandsOn(p, h, f, pf) ==
    /\ f.vel_y > 0
    /\ p.y + p.height <= pf.y
    /\ h.x < pf.x + pf.width /\ h.x + h.width > pf.x
    /\ f.y + f.height > pf.y

\* The player standing on pf at rest.
RestsOn(q, pf) == q.y = pf.y - q.height /\ q.vel_y = 0 /\ ~q.jumping

\* Some (all = FALSE) or every (all = TRUE) landing case of the next tick,
\* over the held directions and the platforms that satisfy Wanted, ends
\* with the player resting on the platform after the vertical pass.
LandingCases(all, Wanted(_)) ==
    LET platforms == LevelPlatforms(variant, level_num)
        n == Len(platforms)
        Case(dx) ==
            LET h == ResolveHorizontal(MoveHorizontal(player, dx), dx, platforms, 1, n)
                f == ApplyGravity(h)
                q == ResolveVertical(f, platforms, 1, n)
                Lands(i) == Wanted(platforms[i]) /\ LandsOn(player, h, f, platforms[i])
            IN  IF all
                THEN \A i \in 1..n : Lands(i) => RestsOn(q, platforms[i])
                ELSE \E i \in 1..n : Lands(i) /\ RestsOn(q, platforms[i])
    IN  IF all THEN \A dx \in Dx : Case(dx) ELSE \E dx \in Dx : Case(dx)

AnyPlatform(pf) == TRUE

AboveGround(pf) == pf.y < Px(128)

\* C10: in every state of play, for every held direction and every
\* platform of the level, if the next tick is a landing case for that
\* platform then at the end of the tick's vertical pass the player rests
\* on it: y = platform.y - height, vel_y = 0, not jumping.
C10_Landing ==
    (state = "playing" /\ player.active /\ ~player.dying)
        => LandingCases(TRUE, AnyPlatform)

\* A player in a jump, falling faster than 4 pixels a tick, is about to
\* land on a platform above the ground.
C10_Witness ==
    /\ state = "playing" /\ player.active /\ ~player.dying
    /\ player.jumping /\ player.vel_y > Px(4)
    /\ LandingCases(FALSE, AboveGround)

\* The player update of the next frame under held direction dx, in its
\* stages: a = the player when the update enters "Enemy collision", pe =
\* player and enemies when it leaves it, m = the result of Player.move.
NextUpdate(dx) ==
    LET platforms == LevelPlatforms(variant, level_num)
        a  == AfterPlatforms(player, dx, platforms)
        pe == EnemyContact(variant, [p |-> a, es |-> enemies], 1, Len(enemies))
    IN  [a |-> a, pe |-> pe,
         m |-> PlayerMove(variant, player, dx, platforms, enemies, coins)]

\* The player is updated in full by the next frame.
Updating == state = "playing" /\ player.active /\ ~player.dying

\* Enemy i is stomped by the update u: at the enemy-contact step the player
\* falls, is above the enemy's y and overlaps it, and the enemy is active.
Stomps(u, i) ==
    /\ enemies[i].active /\ collision(u.a, enemies[i])
    /\ u.a.vel_y > 0 /\ u.a.y < enemies[i].y

\* What C11 requires of the update u for a stomped enemy i.
Stomped(u, i) ==
    /\ ~u.pe.es[i].active /\ ~u.m.es[i].active
    /\ u.pe.p.vel_y = -270
    /\ u.pe.p.coins = u.a.coins + 1
    /\ u.m.p.lives = player.lives

EveryStompDone(u) == \A i \in 1..Len(enemies) : Stomps(u, i) => Stomped(u, i)

SomeStompDone(u) == \E i \in 1..Len(enemies) : Stomps(u, i) /\ Stomped(u, i)

\* C11: in every state of play and for every held direction, if the next
\* player update stomps an enemy, then the enemy-contact step deactivates
\* that enemy, sets vel_y to -0.6 * JUMP_STRENGTH (-2.7 px) and adds 1 to
\* the coin count, and the whole update leaves lives as they were.
C11_Stomp == Updating => \A dx \in Dx : EveryStompDone(NextUpdate(dx))

\* The next update stomps an enemy while the player holds right.
C11_Witness == Updating /\ SomeStompDone(NextUpdate(PLAYER_SPEED))

\* Enemy i touches the player in the update u without being stomped.
Touches(u, i) ==
    /\ enemies[i].active /\ collision(u.a, enemies[i])
    /\ ~(u.a.vel_y > 0 /\ u.a.y < enemies[i].y)

\* What C12 requires of the enemy step of u when an enemy touches the
\* player: damage of exactly one life and a countdown of 60 if the
\* countdown was 0, no change of either if it was positive.
Damaged(u) ==
    IF u.a.invincible = 0
    THEN u.pe.p.lives = u.a.lives - 1 /\ u.pe.p.invincible = 60
    ELSE u.pe.p.lives = u.a.lives /\ u.pe.p.invincible = u.a.invincible

DamageRule(u) ==
    /\ (\E i \in 1..Len(enemies) : Touches(u, i)) => Damaged(u)
    /\ u.m.p.lives >= player.lives - 1
    /\ u.m.p.lives <= player.lives

\* C12: in every state of play and for every held direction, an enemy
\* touching (not stomped by) the player costs exactly one life and sets
\* the countdown to 60 when the countdown is 0, and changes neither when
\* it is positive; no update lowers lives by more than 1.
C12_Damage == Updating => \A dx \in Dx : DamageRule(NextUpdate(dx))

\* Just after a hit (one life lost, countdown 60) an enemy still touches
\* the player in the next update.
C12_Witness ==
    /\ Updating
    /\ player.lives = START_LIVES - 1 /\ player.invincible = INVINCIBLE_FRAMES
    /\ \E i \in 1..Len(enemies) : Touches(NextUpdate(PLAYER_SPEED), i)

\* The coins of a list, by identity.
CoinIds(cs) == {cs[k].id : k \in 1..Len(cs)}

\* The number of active enemies of a list.
ActiveCount(es) == Cardinality({k \in 1..Len(es) : es[k].active})

\* C13: within a level, a step never brings a coin back into the
\* collection nor holds a coin twice, and it raises the coin count by
\* exactly the number of coins it removes plus the number of enemies it
\* stomps: so each coin of the level raises the count at most once, also
\* while the player stays where the coin was.
C13_CoinOnce ==
    [][state = "playing" =>
          /\ CoinIds(coins') \subseteq CoinIds(coins)
          /\ Cardinality(CoinIds(coins')) = Len(coins')
          /\ player'.coins - player.coins =
                (Len(coins) - Len(coins')) + (ActiveCount(enemies) - ActiveCount(enemies'))]_vars

\* A coin of the level has been collected and the player still overlaps
\* the place where it was.
C13_Witness ==
    /\ state = "playing" /\ player.coins > 0
    /\ \E k \in 1..Len(LevelCoins(variant, level_num)) :
          /\ LevelCoins(variant, level_num)[k].id \notin CoinIds(coins)
          /\ collision(player, LevelCoins(variant, level_num)[k])

\* C14: an active enemy standing on a platform with its x exactly at the
\* platform's left edge and direction -1 has direction +1 after the next
\* tick, and on each following tick its x increases, also where another
\* platform of the same height adjoins that edge (the tiles of the ground).
AdjoinsLeft(pf, platforms) ==
    \E k \in 1..Len(platforms) :
        platforms[k].y = pf.y /\ platforms[k].x + platforms[k].width = pf.x

C14_LeftEdgeFlip ==
    [][/\ enemies'[1].direction = 1
       /\ env.lf >= 1 => enemies'[1].x > enemies[1].x]_vars

C14_Witness ==
    /\ env.lf = MaxEdgeTicks
    /\ enemies[1].direction = 1 /\ enemies[1].x > boxA.x
    /\ AdjoinsLeft(boxA, LevelPlatforms(variant, level_num))

\* C15: every pixel written by a draw method of an entity (player,
\* platform, enemy, coin, the goal's pole and flag) on a frame that draws
\* the level has 0 <= x < 160 and 0 <= y < 144.
Clipped(b) ==
    \/ b.xs = {} \/ b.ys = {}
    \/ /\ \A x \in b.xs : 0 <= x /\ Px(x) < GB_WIDTH
       /\ \A y \in b.ys : 0 <= y /\ Px(y) < GB_HEIGHT

Drawing == state = "playing" \/ state \in EndStates

C15_Clipped ==
    Drawing => \A dx \in Dx : DxAllowed(dx) =>
        \A b \in DrawWrites(variant, DrawnGame(variant, TheGame, dx)) : Clipped(b)

\* C16: the coin scan removes every coin that overlaps the player and no
\* other, whatever their places in the list, and counts each removed coin
\* once: the coins left are the non-overlapping ones in their order, none of
\* them overlaps the player, and the count rises by the number removed.
Apart(c) == ~collision(player, c)

C16_ScanRemovesAll ==
    [][/\ coins' = SelectSeq(coins, Apart)
       /\ \A k \in 1..Len(coins') : ~collision(player', coins'[k])
       /\ player'.coins = player.coins + (Len(coins) - Len(coins'))]_vars

\* Two overlapping coins next to each other in the list, and a third after
\* a coin that stays, have been collected.
C16_Witness ==
    /\ env.lf = 1 /\ player.coins = 3
    /\ Len(coins) = 1 /\ coins[1].id = 3

\* C17: on every frame of play that starts with a positive invincibility
\* countdown and leaves the game playing, the countdown is lowered by one
\* (so that 60 frames after a damage it is 0 again).
C17_CountsDown ==
    [][(PlayedFrame /\ state' = "playing" /\ player.invincible > 0
            /\ player.active /\ ~player.dying)
          => player'.invincible = player.invincible - 1]_vars

\* C18: whenever a player exists, its lives are an integer from 0 to 3: no
\* sequence of frames drives them below 0, also from the last life.
C18_LivesInRange ==
    level_num # 0 => player.lives \in 0..START_LIVES

C18_Witness ==
    /\ level_num # 0 /\ player.lives = 0
    /\ \E i \in 1..Len(enemies) : enemies[i].active /\ collision(player, enemies[i])

\* C19: for a player whose active flag is false, Player.move changes nothing
\* whatever the direction held: the player (position, speed, lives, coins,
\* facing, flags), the coin list and the enemies are as before.
C19_InactiveMoveNoOp ==
    (level_num # 0 /\ ~player.active) =>
        \A dx \in Dx :
            PlayerMove(variant, player, dx, LevelPlatforms(variant, level_num),
                       enemies, coins)
                = [p |-> player, es |-> enemies, cs |-> coins]

\* Frames of play have passed with the player inactive.
C19_Witness ==
    /\ state = "playing" /\ ~player.active
    /\ env.lf > DEATH_FRAMES

\* C20: in ext, while the player is dying (and still active) a jump changes
\* nothing, and an update, whatever the direction held, leaves x, lives,
\* coins, the coin list and the enemies as they are, adds half the gravity
\* to vel_y and the new vel_y to y, and counts one tick of the death timer;
\* the timer starts at 0 and a player still active has counted at most 60
\* ticks, so the player is inactive at the latest after the 61st.
DyingUpdate(m) ==
    /\ m.p.x = player.x
    /\ m.p.vel_y = player.vel_y + GRAVITY \div 2
    /\ m.p.y = player.y + m.p.vel_y
    /\ m.p.lives = player.lives /\ m.p.coins = player.coins
    /\ m.p.jumping = player.jumping /\ m.p.direction = player.direction
    /\ m.es = enemies /\ m.cs = coins
    /\ m.p.death_timer = player.death_timer + 1
    /\ m.p.active => m.p.death_timer <= DEATH_FRAMES

C20_Dying ==
    (variant = "ext" /\ level_num # 0) =>
        /\ ~player.dying => player.death_timer = 0
        /\ (player.dying /\ player.active) =>
              /\ player.death_timer <= DEATH_FRAMES
              /\ PlayerJump(player) = player
              /\ \A dx \in Dx :
                    DyingUpdate(PlayerMove(variant, player, dx,
                                           LevelPlatforms(variant, level_num),
                                           enemies, coins))

\* A dying player in the middle of its animation, on top of an enemy.
C20_Witness ==
    /\ variant = "ext" /\ state = "playing"
    /\ player.dying /\ player.active /\ player.death_timer > 0
    /\ \E i \in 1..Len(enemies) : enemies[i].active /\ collision(player, enemies[i])

\* C21: on every step of a level being played the enemy list keeps its
\* length and order (each entry keeps its y, size, kind and speed), no
\* inactive enemy becomes active, an inactive enemy keeps its x, direction
\* and animation phase, and an update after which the player overlaps
\* inactive enemies only takes no life, starts no invincibility and stomps
\* nothing (the coin count rises by the coins picked up only).
SameEnemy(e, f) ==
    /\ f.y = e.y /\ f.width = e.width /\ f.height = e.height
    /\ f.enemy_type = e.enemy_type /\ f.speed = e.speed

OnlyInactiveTouched(p, es) ==
    \A i \in 1..Len(es) : collision(p, es[i]) => ~es[i].active

C21_InactiveInert ==
    [][state = "playing" =>
          /\ Len(enemies') = Len(enemies)
          /\ \A i \in 1..Len(enemies) :
                /\ SameEnemy(enemies[i], enemies'[i])
                /\ ~enemies[i].active => enemies'[i] = enemies[i]
          /\ OnlyInactiveTouched(player', enemies) =>
                /\ player'.lives = player.lives
                /\ player'.invincible <= player.invincible
                /\ ActiveCount(enemies') = ActiveCount(enemies)
                /\ player'.coins - player.coins = Len(coins) - Len(coins')]_vars

\* The player is on top of an enemy stomped earlier.
C21_Witness ==
    /\ state = "playing" /\ player.active
    /\ \E i \in 1..Len(enemies) : ~enemies[i].active /\ collision(player, enemies[i])

\* C22: a jump of a player that is not jumping (and, in ext, not dying) sets
\* vel_y to -JUMP_STRENGTH, times 1.2 under power-up, and sets the jumping
\* flag, leaving everything else; any other jump changes nothing.
C22_Jump ==
    [][/\ player' =
            IF ~player.jumping /\ ~player.dying
            THEN [player EXCEPT !.vel_y = IF player.power_up THEN -540 ELSE -450,
                                !.jumping = TRUE]
            ELSE player
       /\ UNCHANGED <<state, enemies, coins, scroll_x>>]_vars

C22_Witness ==
    /\ env.lf = 1 /\ variant = "ext"
    /\ player.power_up /\ player.jumping /\ player.vel_y = -540

\* The horizontal pass of the next update under held direction dx: moved =
\* the player after "x += dx * speed_mult", h = the player after the platform
\* loop, at[k] = the player when the loop reaches platform k, for the
\* platforms level with the player (no other can overlap it), hits = those
\* of them the player overlaps when the loop reaches them.
HorizontalPass(dx) ==
    LET platforms == LevelPlatforms(variant, level_num)
        n == Len(platforms)
        moved == MoveHorizontal(player, dx)
        level == {k \in 1..n : /\ player.y < platforms[k].y + platforms[k].height
                               /\ player.y + player.height > platforms[k].y}
        at == [k \in level |-> ResolveHorizontal(moved, dx, platforms, 1, k - 1)]
    IN  [moved |-> moved,
         h |-> ResolveHorizontal(moved, dx, platforms, 1, n),
         level |-> level, at |-> at,
         hits |-> {k \in level : collision(at[k], platforms[k])}]

NearEdge(dx, pf) == IF dx > 0 THEN pf.x - player.width ELSE pf.x + pf.width

HorizontalRule(dx, u) ==
    LET platforms == LevelPlatforms(variant, level_num)
        last == CHOOSE k \in u.hits : \A j \in u.hits : j <= k
    IN  /\ u.moved.x = player.x + (IF player.power_up THEN (dx * 3) \div 2 ELSE dx)
        /\ u.h = [u.moved EXCEPT !.x = u.h.x]
        /\ \A k \in u.level :
              LET x == HorizontalHit(u.at[k], dx, platforms[k]).x
              IN  /\ (k \in u.hits /\ dx # 0) => x = NearEdge(dx, platforms[k])
                  /\ k \notin u.hits => x = u.at[k].x
        /\ u.hits = {} => u.h.x = u.moved.x
        /\ (u.hits # {} /\ dx # 0) => u.h.x = NearEdge(dx, platforms[last])

\* C23: in the horizontal pass of an update, x first moves by dx times the
\* speed multiplier; a platform the player overlaps when the loop reaches
\* it puts x at platform.x - player.width (moving right) or at
\* platform.x + platform.width (moving left); a platform it does not
\* overlap leaves x alone; the x after the loop is the one set by the last
\* platform overlapped, and the moved x when none was.
C23_HorizontalSnap ==
    Updating => \A dx \in Dx : HorizontalRule(dx, HorizontalPass(dx))

\* The direction held in the run takes the player into the side of a
\* platform.
C23_Witness ==
    /\ Updating
    /\ \E dx \in Dx : DxAllowed(dx) /\ HorizontalPass(dx).hits # {}

\* The enemy e is on the platform pf: their horizontal extents overlap and
\* the enemy's bottom is less than 2 pixels from the platform's top.
OnPlatform(e, pf) ==
    /\ e.x + e.width > pf.x /\ e.x < pf.x + pf.width
    /\ (e.y + e.height) - pf.y < Px(2) /\ pf.y - (e.y + e.height) < Px(2)

\* The direction d after the platforms ks (in ascending order) that the
\* enemy e is on have each turned it at their edge.
RECURSIVE TurnedBy(_, _, _, _)
TurnedBy(d, e, platforms, ks) ==
    IF ks = {} THEN d
    ELSE LET k == CHOOSE j \in ks : \A i \in ks : j <= i
             pf == platforms[k]
             edge == \/ (d < 0 /\ e.x <= pf.x)
                     \/ (d > 0 /\ e.x + e.width >= pf.x + pf.width)
         IN  TurnedBy(IF edge THEN -d ELSE d, e, platforms, ks \ {k})

\* f is e after one patrol step over platforms.
PatrolStep(e, f, platforms) ==
    LET on == {k \in 1..Len(platforms) : OnPlatform(f, platforms[k])}
    IN  /\ f.x = e.x + e.direction * e.speed
        /\ f.y = e.y
        /\ f.direction = IF on = {} THEN -e.direction
                         ELSE TurnedBy(e.direction, f, platforms, on)

\* C24: on a frame of play every enemy that is active after the player's
\* update advances x by direction * speed, is then turned by each platform
\* it is on (in list order) at whose left edge it arrived moving left or at
\* whose right edge it arrived moving right, is turned once if it is on no
\* platform, and keeps its y.
C24_Patrol ==
    [][PlayedFrame =>
          \A i \in 1..Len(enemies) :
              enemies'[i].active =>
                  PatrolStep(enemies[i], enemies'[i],
                             LevelPlatforms(variant, level_num))]_vars

\* An enemy has just turned at the right edge of its platform.
C24_Witness ==
    /\ state = "playing" /\ env.lf > 0
    /\ \E i \in 1..Len(enemies) :
          /\ enemies[i].active /\ enemies[i].direction = -1
          /\ \E k \in 1..Len(LevelPlatforms(variant, level_num)) :
                LET pf == LevelPlatforms(variant, level_num)[k]
                IN  /\ OnPlatform(enemies[i], pf)
                    /\ enemies[i].x + enemies[i].width >= pf.x + pf.width

\* C25: on a frame of play, with x the player's x after its update and d =
\* x - scroll: if 53 <= d <= 107 the scroll offset is unchanged; if d > 107
\* it becomes x - 107 and if d < 53 it becomes x - 53, clamped to
\* 0 .. level width - 160.
C25_DeadZone ==
    [][PlayedFrame =>
          LET d == player'.x - scroll_x
              last == level_width(variant, level_num) - Px(160)
          IN  IF Px(53) <= d /\ d <= Px(107)
              THEN scroll_x' = scroll_x
              ELSE IF d > Px(107)
              THEN scroll_x' = Max2(0, Min2(player'.x - Px(107), last))
              ELSE scroll_x' = Max2(0, Min2(player'.x - Px(53), last))]_vars

\* The player has stepped out of the band to the left and the camera has
\* retreated with it, short of the left end of the level.
C25_Witness ==
    /\ state = "playing" /\ env.lf = 1
    /\ 0 < scroll_x /\ scroll_x < boxA.x
    /\ player.x - scroll_x = SCROLL_THRESH

\* C26: in every reachable state the player's animation phase lies in
\* [0, 2), so the walking-frame index taken from it is 0 or 1, and every
\* enemy's phase lies in [0, 2) (phases are in tenths: 0..19).
C26_PhaseInRange ==
    /\ 0 <= player.animation_frame /\ player.animation_frame < 20
    /\ player.animation_frame \div 10 \in 0..1
    /\ \A i \in 1..Len(enemies) :
          0 <= enemies[i].animation_frame /\ enemies[i].animation_frame < 20

LeftByPlayer(dx) ==
    LET m == PlayerMove(variant, player, dx, LevelPlatforms(variant, level_num),
                        enemies, coins)
    IN  [cs |-> m.cs, flags |-> [i \in 1..Len(m.es) |-> m.es[i].active]]

\* C28: on a frame of play the coin collection and the enemies' active
\* flags after the frame are those the player update left: the enemy
\* updates, the camera, the victory and game-over checks and the drawing
\* change neither; the frame stays in the same level, whose platforms and
\* Goal are fixed by its number.
C28_SingleWriter ==
    [][PlayedFrame =>
          /\ level_num' = level_num
          /\ Len(enemies') = Len(enemies)
          /\ \E dx \in Dx :
                LET w == LeftByPlayer(dx)
                IN  /\ coins' = w.cs
                    /\ \A i \in 1..Len(enemies) : enemies'[i].active = w.flags[i]]_vars

\* A coin has been collected and an enemy stomped in the level being played,
\* and the remaining enemies have moved.
C28_Witness ==
    /\ state = "playing" /\ env.lf > 0
    /\ Len(coins) < Len(LevelCoins(variant, level_num))
    /\ ActiveCount(enemies) < Len(enemies)

\* C29: in menu, level_select, game_over and victory an iteration of the
\* main loop leaves the game as it is, whatever keys are held: player,
\* enemies, coins, scroll offset, level and state.
C29_OnlyRender ==
    state # "playing" => \A dx \in Dx : GameFrame(variant, TheGame, dx) = TheGame

\* A level ended in victory while the invincibility countdown was running,
\* so that draw_game reaches the countdown code of Player.draw.
C29_Witness ==
    /\ state = "victory"
    /\ player.active /\ player.invincible > 0

\* C30: while a level is loaded, the player's coin count is the number of
\* coins collected (placed at level construction minus still in the
\* collection) plus the number of inactive enemies.
C30_CoinAccounting ==
    level_num >= 1
        => player.coins = (Len(LevelCoins(variant, level_num)) - Len(coins))
                            + (Len(enemies) - ActiveCount(enemies))

\* Both kinds of point have been scored: the count is at least 2, with a
\* coin collected and an enemy stomped.
C30_Witness ==
    /\ level_num >= 1
    /\ player.coins >= 2
    /\ Len(coins) < Len(LevelCoins(variant, level_num))
    /\ \E i \in 1..Len(enemies) : ~enemies[i].active

\* The unlock flags form a prefix: the first is set, and a set flag has
\* every earlier flag set.
UnlockedPrefix(flags) ==
    /\ 1 \in DOMAIN flags /\ flags[1]
    /\ \A n \in DOMAIN flags : (n > 1 /\ flags[n]) => (n - 1 \in DOMAIN flags /\ flags[n - 1])

\* C31: the flag of level 1 is always set, level k+1 unlocked implies level
\* k unlocked in every reachable state, and no step clears a flag.
C31_UnlockMonotonic ==
    /\ [](UnlockedPrefix(level_unlocked))
    /\ [][\A n \in DOMAIN level_unlocked :
              level_unlocked[n] => (n \in DOMAIN level_unlocked' /\ level_unlocked'[n])]_vars

\* Two levels have been cleared in a row: the third flag is set.
C31_Witness ==
    /\ 3 \in DOMAIN level_unlocked /\ level_unlocked[3]
    /\ state = "victory"

\* C32: the unlock flags change only on a frame of play that ends in
\* victory; a step that ends in game_over, or in any other state, leaves
\* every flag as it was.
C32_UnlockOnlyOnVictory ==
    [][level_unlocked' # level_unlocked
          => (PlayedFrame /\ state' = "victory")]_vars

\* Level 2 has ended in game_over: its own flag is set from the victory of
\* level 1, the flag of level 3 is not.
C32_Witness ==
    /\ state = "game_over" /\ current_level = 2
    /\ level_unlocked[2] /\ ~level_unlocked[3]

\* The game after the one transition that key k stands for in the present
\* state, and the game as it is when k stands for none.
OneTransition(k) ==
    LET g == TheGame
    IN  CASE state = "playing" /\ k = "ESCAPE" -> [g EXCEPT !.state = "menu"]
          [] state = "playing" /\ k \in JumpKeys ->
                [g EXCEPT !.player = PlayerJump(player)]
          [] state = "menu" /\ k = "RETURN" -> [g EXCEPT !.state = "level_select"]
          [] state = "level_select" /\ KeyLevel(k) \in 1..LevelCount(variant) ->
                IF level_unlocked[KeyLevel(k)]
                THEN start_level(variant, g, KeyLevel(k)) ELSE g
          [] state \in EndStates /\ k = "RETURN" -> [g EXCEPT !.state = "level_select"]
          [] OTHER -> g

\* C33: in every reachable state, handling one key press makes at most one
\* transition: the chain of "if" blocks gives what the single block of the
\* present state gives.  Confirm in menu ends in level_select with no level
\* started, cancel in playing ends in menu, a level started from
\* level_select has a player that has not jumped, confirm in game_over or
\* victory ends in level_select.
C33_OneTransitionPerKey ==
    \A k \in Key :
        LET g == HandleKey(variant, TheGame, k)
        IN  /\ g = OneTransition(k)
            /\ (state = "level_select" /\ g.state = "playing")
                    => (~g.player.jumping /\ g.player.vel_y = 0)

\* A level has just been started by a number key: no frame played yet, the
\* player at rest.
C33_Witness ==
    /\ state = "playing" /\ env.lf = 0
    /\ last_input \in LevelKeys
    /\ ~player.jumping /\ player.vel_y = 0

\* The update under held direction dx lands the player: after the
\* horizontal pass and gravity the player is falling and overlaps a
\* platform, and the update leaves it standing on top of that platform.
LandsOnTop(dx) ==
    LET platforms == LevelPlatforms(variant, level_num)
        f == ApplyGravity(ResolveHorizontal(MoveHorizontal(player, dx), dx,
                                            platforms, 1, Len(platforms)))
    IN  /\ f.vel_y > 0
        /\ \E k \in 1..Len(platforms) :
              /\ collision(f, platforms[k])
              /\ player'.y = platforms[k].y - player.height

\* C34: a jump key changes nothing while the jumping flag is set, and the
\* flag of a player is cleared only by a frame whose update lands the
\* player on top of a platform (the falling case of the vertical pass): not
\* by a stomp bounce, a ceiling hit or damage.  (Starting a level makes a
\* new player.)  So between two jumps that take effect there is a landing.
C34_NoDoubleJump ==
    [][/\ (state = "playing" /\ state' = "playing" /\ env'.lf = env.lf
              /\ player.jumping) => player' = player
       /\ (player.jumping /\ ~player'.jumping)
              => \/ state # "playing" /\ state' = "playing"
                 \/ PlayedFrame /\ \E dx \in Dx : LandsOnTop(dx)]_vars

\* The player is rising from a stomp bounce with the jumping flag still set.
C34_Witness ==
    /\ state = "playing" /\ player.active
    /\ player.jumping
    /\ player.vel_y = -((JUMP_STRENGTH * 6) \div 10)
    /\ \E i \in 1..Len(enemies) : ~enemies[i].active

\* C35: in every reachable state in which the player is updated in full,
\* the update with no horizontal input leaves the player's x and facing
\* as they are.
C35_StandingStill ==
    Updating => LET u == NextUpdate(0)
                IN  u.m.p.x = player.x /\ u.m.p.direction = player.direction

\* The player stands flush against the left side of a platform after
\* walking into it: one step from overlapping it, where the horizontal pass
\* with dx = 0 would move the player to the platform's right side.
C35_Witness ==
    /\ Updating /\ env.lf > 0
    /\ \E k \in 1..Len(LevelPlatforms(variant, level_num)) :
          LET pf == LevelPlatforms(variant, level_num)[k]
          IN  /\ player.x + player.width = pf.x
              /\ player.y < pf.y + pf.height /\ player.y + player.height > pf.y

\* The platforms of the level being played that overlap box p.
Overlapped(p) ==
    {k \in 1..Len(LevelPlatforms(variant, level_num)) :
        collision(p, LevelPlatforms(variant, level_num)[k])}

\* C36: in every reachable state with a level loaded and the player active
\* and not dying, that is after every player update, the player overlaps no
\* platform of the level.
C36_OutsidePlatforms ==
    (level_num >= 1 /\ player.active /\ ~player.dying) => Overlapped(player) = {}

\* The update about to run has the player, after horizontal movement and
\* gravity, overlapping two platforms at once.
C36_Witness ==
    /\ Updating /\ env.lf > 0
    /\ \E dx \in Dx :
          /\ DxAllowed(dx)
          /\ LET platforms == LevelPlatforms(variant, level_num)
                 f == ApplyGravity(ResolveHorizontal(MoveHorizontal(player, dx), dx,
                                                     platforms, 1, Len(platforms)))
             IN  Cardinality(Overlapped(f)) >= 2

\* The platforms of the level under the feet of enemy i as the level
\* template places it.
HomePlatforms(i) ==
    {k \in 1..Len(LevelPlatforms(variant, level_num)) :
        OnPlatform(LevelEnemies(variant, level_num)[i],
                   LevelPlatforms(variant, level_num)[k])}

\* Enemy e is within the patrol range of platform pf.
WithinPatrol(e, pf) ==
    /\ pf.x - e.speed <= e.x
    /\ e.x <= pf.x + pf.width - e.width + e.speed

\* Enemy e is on some platform of the level after its next step, so that the
\* "on no platform" flip does not fire.
StaysOn(e) ==
    LET m == [e EXCEPT !.x = e.x + e.direction * e.speed]
    IN  \E k \in 1..Len(LevelPlatforms(variant, level_num)) :
            OnPlatform(m, LevelPlatforms(variant, level_num)[k])

\* C37: every enemy of every level template is placed on exactly one
\* platform and, while active, faces left or right, stays within one step
\* of that platform's extent, and is on a platform after each of its steps.
C37_PatrolContained ==
    level_num >= 1 =>
        \A i \in 1..Len(enemies) :
            /\ Cardinality(HomePlatforms(i)) = 1
            /\ enemies[i].active =>
                  /\ (enemies[i].direction = -1 \/ enemies[i].direction = 1)
                  /\ enemies[i].y = LevelEnemies(variant, level_num)[i].y
                  /\ \A k \in HomePlatforms(i) :
                        WithinPatrol(enemies[i], LevelPlatforms(variant, level_num)[k])
                  /\ StaysOn(enemies[i])

\* An enemy has turned at the right end of its platform and has walked back
\* to the left end: at or past the platform's left edge, facing right.
C37_Witness ==
    /\ level_num >= 1 /\ env.lf > 0
    /\ \E i \in 1..Len(enemies) : \E k \in HomePlatforms(i) :
          /\ enemies[i].active /\ enemies[i].direction = 1
          /\ enemies[i].x <= LevelPlatforms(variant, level_num)[k].x
          /\ env.lf * enemies[i].speed
                 > 2 * (LevelPlatforms(variant, level_num)[k].width - enemies[i].width)

\* The level has a ground tile (16 x 16, top at GB_HEIGHT - 16) under some
\* part of the horizontal extent lo..hi.
GroundUnder(lo, hi) ==
    \E k \in 1..Len(LevelPlatforms(variant, level_num)) :
        LET pf == LevelPlatforms(variant, level_num)[k]
        IN  /\ pf.y = GB_HEIGHT - Px(16) /\ pf.height = Px(16) /\ pf.width = Px(16)
            /\ pf.x < hi /\ pf.x + pf.width > lo

\* C38: on every level of both variants the Goal is at
\* (level_width - 40, 96), and the ground strip has a tile under the player
\* spawn (x in 20..28) and a tile under the Goal's horizontal extent.
C38_GroundUnderSpawnAndGoal ==
    level_num >= 1 =>
        LET goal == LevelGoal(variant, level_num)
        IN  /\ goal.x = level_width(variant, level_num) - Px(40)
            /\ goal.y = Px(96)
            /\ GroundUnder(Px(20), Px(28))
            /\ GroundUnder(goal.x, goal.x + goal.width)

====
